---- MODULE Spec2Model ----
(***************************************************************************)
(* Position-risk aggregation pipeline of the Buibui Moon trader bot        *)
(* (monitor/position_lib.py): fetch_open_positions with its stop-loss      *)
(* fan-out over a bounded worker pool, the risk join and the report        *)
(* assembly.                                                               *)
(*                                                                         *)
(* Numbers.  The gateway delivers decimal strings; float() is the table    *)
(* ParseTable, which yields hundredths (prices and money in cents,         *)
(* amounts in hundredths of a unit).  Percentages are kept in hundredths   *)
(* of a percent (the two decimals the report prints).  The input values    *)
(* are chosen so that every quotient the code forms is exact at that       *)
(* resolution.  The floored margin is a fraction n/d of a cent, because    *)
(* the floor 1e-6 USD is not a whole number of cents.                      *)
(***************************************************************************)
EXTENDS Integers, Sequences, FiniteSets, TLC

(***************************************************************************)
(* Bounds of the model                                                     *)
(***************************************************************************)
\* longest position list the gateway returns
MaxPositions == 2

(***************************************************************************)
(* Configuration (coins.json as the tests load it) and the caller's        *)
(* coin_order = list(coins_config.keys())                                  *)
(***************************************************************************)
coins_config ==
    ("BTCUSDT" :> [leverage |-> 25, sl_percent |-> 200]) @@
    ("ETHUSDT" :> [leverage |-> 20, sl_percent |-> 250])

coin_order == <<"BTCUSDT", "ETHUSDT">>

\* sort key of a symbol that is not in coin_order
UnknownOrderKey == 999

\* hidden sort keys of a placeholder row: -999 percent, -9999 USD
PlaceholderPnlKey == -99900

PlaceholderRiskKey == -999900

\* 1 / 1e-6: the margin floor is 1e-6 USD = 1/EpsPerCent cent
EpsPerCent == 10000

(***************************************************************************)
(* float(): decimal string -> hundredths.  A string outside the table is   *)
(* not a number (ValueError).                                              *)
(***************************************************************************)
ParseTable ==
    ("0" :> 0) @@ ("1" :> 100) @@ ("-1" :> -100) @@
    ("0.20" :> 20) @@ ("-0.20" :> -20) @@ ("10" :> 1000) @@
    ("50" :> 5000) @@ ("60" :> 6000) @@ ("75" :> 7500) @@
    ("90" :> 9000) @@ ("100" :> 10000) @@ ("110" :> 11000) @@
    ("120" :> 12000) @@ ("1000" :> 100000) @@ ("-1000" :> -100000)

CanFloat(s) == s \in DOMAIN ParseTable

Float(s) == ParseTable[s]

Abs(x) == IF x < 0 THEN -x ELSE x

Max(a, b) == IF a >= b THEN a ELSE b

\* Python round(): nearest integer to num/den (den > 0), ties to even
RoundHalfEven(num, den) ==
    LET q == num \div den
        r == num % den
    IN  IF 2 * r < den THEN q
        ELSE IF 2 * r > den THEN q + 1
        ELSE IF q % 2 = 0 THEN q ELSE q + 1

(***************************************************************************)
(* What the gateway may answer                                             *)
(***************************************************************************)
BtcLong ==
    [symbol |-> "BTCUSDT", positionAmt |-> "1", entryPrice |-> "100",
     markPrice |-> "110", notional |-> "1000",
     positionInitialMargin |-> "50", unRealizedProfit |-> "10"]

BtcShort ==
    [symbol |-> "BTCUSDT", positionAmt |-> "-1", entryPrice |-> "60",
     markPrice |-> "75", notional |-> "-1000",
     positionInitialMargin |-> "50", unRealizedProfit |-> "10"]

\* a losing short whose initial margin is reported as zero
EthShort ==
    [symbol |-> "ETHUSDT", positionAmt |-> "-1", entryPrice |-> "75",
     markPrice |-> "60", notional |-> "-1000",
     positionInitialMargin |-> "0", unRealizedProfit |-> "-0.20"]

EthFlat ==
    [symbol |-> "ETHUSDT", positionAmt |-> "0", entryPrice |-> "0",
     markPrice |-> "75", notional |-> "0",
     positionInitialMargin |-> "0", unRealizedProfit |-> "0"]

\* an open position of a symbol that is not configured
DogeLong ==
    [symbol |-> "DOGEUSDT", positionAmt |-> "1", entryPrice |-> "100",
     markPrice |-> "110", notional |-> "100",
     positionInitialMargin |-> "10", unRealizedProfit |-> "0"]

\* malformed entries: no positionAmt key; a non-numeric entryPrice
BtcNoAmt ==
    [symbol |-> "BTCUSDT", entryPrice |-> "100",
     markPrice |-> "110", notional |-> "1000",
     positionInitialMargin |-> "50", unRealizedProfit |-> "10"]

EthBadEntry ==
    [symbol |-> "ETHUSDT", positionAmt |-> "1", entryPrice |-> "n/a",
     markPrice |-> "60", notional |-> "1000",
     positionInitialMargin |-> "50", unRealizedProfit |-> "10"]

PositionRecords ==
    {BtcLong, BtcShort, EthShort, EthFlat, DogeLong, BtcNoAmt, EthBadEntry}

PositionLists ==
    UNION {[1..n -> PositionRecords] : n \in 0..MaxPositions}

BalanceLists ==
    { <<>>,
      <<[asset |-> "BNB", balance |-> "1"],
        [asset |-> "USDT", balance |-> "1000", crossUnPnl |-> "10"]>>,
      <<[asset |-> "USDT", balance |-> "0"]>> }

\* an open-orders answer: the query raises, or it returns a list of orders
OrderAnswers ==
    { [raises |-> TRUE, orders |-> <<>>],
      [raises |-> FALSE, orders |->
         <<[type |-> "LIMIT", reduceOnly |-> TRUE, stopPrice |-> "120"]>>],
      [raises |-> FALSE, orders |->
         <<[type |-> "STOP_MARKET", reduceOnly |-> FALSE, stopPrice |-> "120"],
           [type |-> "STOP", reduceOnly |-> TRUE, stopPrice |-> "90"]>>],
      [raises |-> FALSE, orders |->
         <<[type |-> "STOP_MARKET", reduceOnly |-> TRUE, stopPrice |-> "120"],
           [type |-> "STOP_MARKET", reduceOnly |-> TRUE, stopPrice |-> "90"]>>] }

\* the open orders a lookup called on its own may be answered with
MaxOrders == 2

OrderTypes == {"LIMIT", "STOP", "STOP_MARKET", "TAKE_PROFIT_MARKET"}

StopPrices == {"90", "120"}

\* an order, with or without the key reduceOnly
OpenOrders ==
    [type : OrderTypes, reduceOnly : BOOLEAN, stopPrice : StopPrices]
        \cup [type : {"STOP_MARKET"}, stopPrice : StopPrices]

LookupAnswers ==
    {[raises |-> TRUE, orders |-> <<>>]} \cup
    {[raises |-> FALSE, orders |-> os] :
        os \in UNION {[1..n -> OpenOrders] : n \in 0..MaxOrders}}

\* os.cpu_count(): 0 stands for None (unknown)
CpuCounts == {0, 2, 4}

SortPolicies == {"default", "pnl_pct", "sl_usd"}

\* WALLET_TARGET in cents: none, 2000 USD
WalletTargets == {0, 200000}

\* what send_telegram_message does when display_table calls it
SendOutcomes == {"ok", "raises"}

\* bar_length of display_progress_bar
BarLength == 30

(***************************************************************************)
(* Formatted cells of a row: <<format, colour, value>>.  "-" is Dash.      *)
(***************************************************************************)
Dash == <<"-", "", 0>>

NoneVal == <<>>

Some(v) == <<v>>

\* colorize(value, threshold = 0): value in hundredths of a percent
colorize(value) ==
    IF value > 0 THEN <<"pct", "green", value>>
    ELSE IF value < 0 THEN <<"pct", "red", value>>
    ELSE <<"pct", "yellow", value>>

\* color_sl_size(pct), pct in hundredths of a percent, with the boundaries
\* of one tier moved into the tier below
ColorSlSizeBoundaryBelow(pct) ==
    IF pct <= 200 THEN <<"pct", "red", pct>>
    ELSE IF pct <= 350 THEN <<"pct", "yellow", pct>>
    ELSE <<"pct", "green", pct>>

\* color_sl_size(pct), pct in hundredths of a percent
color_sl_size(pct) ==
    IF pct < 200 THEN <<"pct", "red", pct>>
    ELSE IF pct < 350 THEN <<"pct", "yellow", pct>>
    ELSE <<"pct", "green", pct>>

\* colorize_dollar(value): value in cents; a negative value keeps its sign
colorize_dollar(value) ==
    IF value > 0 THEN <<"usd", "green", value>>
    ELSE IF value < 0 THEN <<"usd", "red", value>>
    ELSE <<"usd", "yellow", 0>>

(***************************************************************************)
(* get_wallet_balance: <<balance, unrealized>> of the first USDT entry,    *)
(* <<0, 0>> when there is none                                             *)
(***************************************************************************)
get_wallet_balance(balances) ==
    LET usdt == {i \in 1..Len(balances) : balances[i].asset = "USDT"}
    IN  IF usdt = {} THEN <<0, 0>>
        ELSE LET b == balances[CHOOSE i \in usdt : \A j \in usdt : i <= j]
             IN  <<Float(b.balance),
                   IF "crossUnPnl" \in DOMAIN b THEN Float(b.crossUnPnl) ELSE 0>>

(***************************************************************************)
(* get_stop_loss_for_symbol: the stop price of the first reduce-only stop  *)
(* order, None when there is none or when anything raises                  *)
(***************************************************************************)
\* variant of FirstStop: any stop order counts, reduce-only or not
RECURSIVE FirstStopAnyStop(_, _)
FirstStopAnyStop(orders, i) ==
    IF i > Len(orders) THEN NoneVal
    ELSE LET o == orders[i]
         IN  IF "type" \notin DOMAIN o THEN NoneVal
             ELSE IF o.type \in {"STOP_MARKET", "STOP"}
                  THEN IF "stopPrice" \in DOMAIN o /\ CanFloat(o.stopPrice)
                       THEN Some(Float(o.stopPrice))
                       ELSE NoneVal
                  ELSE FirstStopAnyStop(orders, i + 1)

RECURSIVE FirstStop(_, _)
FirstStop(orders, i) ==
    IF i > Len(orders) THEN NoneVal
    ELSE LET o == orders[i]
         IN  IF "type" \notin DOMAIN o THEN NoneVal
             ELSE IF /\ o.type \in {"STOP_MARKET", "STOP"}
                     /\ "reduceOnly" \in DOMAIN o
                     /\ o.reduceOnly
                  THEN IF "stopPrice" \in DOMAIN o /\ CanFloat(o.stopPrice)
                       THEN Some(Float(o.stopPrice))
                       ELSE NoneVal
                  ELSE FirstStop(orders, i + 1)

get_stop_loss_for_symbol(answer) ==
    IF answer.raises THEN NoneVal ELSE FirstStop(answer.orders, 1)

(***************************************************************************)
(* fetch_sl: the stop-loss tuple of one open position                      *)
(***************************************************************************)
\* variant of SlNoStop: the no-stop branch formats a zero risk as a dollar value
SlNoStopZeroDollar(symbol) ==
    [symbol |-> symbol, actual_sl_str |-> Dash, sl_size_str |-> Dash,
     sl_usd_str |-> <<"usd", "yellow", 0>>, sl_risk_usd |-> 0,
     sl_percent |-> NoneVal]

\* lines 150-163: no stop price (none found, the lookup failed, or price 0)
SlNoStop(symbol) ==
    [symbol |-> symbol, actual_sl_str |-> Dash, sl_size_str |-> Dash,
     sl_usd_str |-> Dash, sl_risk_usd |-> 0, sl_percent |-> NoneVal]

\* lines 164-165: anything raised inside fetch_sl
SlFailure(symbol) ==
    [symbol |-> symbol, actual_sl_str |-> Dash, sl_size_str |-> Dash,
     sl_usd_str |-> Dash, sl_risk_usd |-> 0, sl_percent |-> NoneVal]

\* variant of SlPercent: the two sides exchanged
SlPercentSidesSwapped(side_text, entry, actual_sl) ==
    IF side_text = "SHORT"
    THEN ((actual_sl - entry) * 10000) \div entry
    ELSE ((entry - actual_sl) * 10000) \div entry

\* (entry - stop) / entry * 100 for a short, (stop - entry) / entry * 100 for a long
SlPercent(side_text, entry, actual_sl) ==
    IF side_text = "SHORT"
    THEN ((entry - actual_sl) * 10000) \div entry
    ELSE ((actual_sl - entry) * 10000) \div entry

fetch_sl(symbol, side_text, entry, notional, answer) ==
    LET found == get_stop_loss_for_symbol(answer)
    IN  IF found # NoneVal /\ found[1] # 0
        THEN IF entry = 0
             THEN SlFailure(symbol)     \* ZeroDivisionError, caught
             ELSE LET sl_percent == SlPercent(side_text, entry, found[1])
                      sl_risk_usd == (notional * sl_percent) \div 10000
                  IN  [symbol |-> symbol,
                       actual_sl_str |-> <<"price", "", found[1]>>,
                       sl_size_str |-> colorize(sl_percent),
                       sl_usd_str |-> colorize_dollar(sl_risk_usd),
                       sl_risk_usd |-> sl_risk_usd,
                       sl_percent |-> Some(sl_percent)]
        ELSE SlNoStop(symbol)

(***************************************************************************)
(* The scan of the position list (lines 119-134)                           *)
(***************************************************************************)
\* float(pos[key]): the exception it raises, "" when it raises none
FieldExc(pos, key) ==
    IF key \notin DOMAIN pos THEN "KeyError"
    ELSE IF ~CanFloat(pos[key]) THEN "ValueError"
    ELSE ""

\* float(pos.get(key, 0))
GetFloat(pos, key) == IF key \in DOMAIN pos THEN Float(pos[key]) ELSE 0

GetExc(pos, key) ==
    IF key \in DOMAIN pos /\ ~CanFloat(pos[key]) THEN "ValueError" ELSE ""

\* variant of Configured: the symbol filter is missing
ConfiguredAny(pos) == pos.symbol = pos.symbol

\* symbol in coins_config (line 122)
Configured(pos) == pos.symbol \in DOMAIN coins_config

\* the exception one iteration of the scan raises, "" when it raises none
ScanExc(pos) ==
    IF "symbol" \notin DOMAIN pos THEN "KeyError"
    ELSE IF ~Configured(pos) THEN ""
    ELSE IF FieldExc(pos, "positionAmt") # "" THEN FieldExc(pos, "positionAmt")
    ELSE IF Float(pos.positionAmt) = 0 THEN ""
    ELSE IF FieldExc(pos, "entryPrice") # "" THEN FieldExc(pos, "entryPrice")
    ELSE IF FieldExc(pos, "markPrice") # "" THEN FieldExc(pos, "markPrice")
    ELSE IF FieldExc(pos, "notional") # "" THEN FieldExc(pos, "notional")
    ELSE GetExc(pos, "positionInitialMargin")

\* the iteration appends an entry: configured symbol, non-zero amount
IsOpen(pos) ==
    /\ ScanExc(pos) = ""
    /\ Configured(pos)
    /\ Float(pos.positionAmt) # 0

\* variant of MarginOf: a floor of one cent
MarginOfCentFloor(pos) ==
    LET m == GetFloat(pos, "positionInitialMargin")
    IN  IF m = 0 THEN [n |-> 1, d |-> 1] ELSE [n |-> m, d |-> 1]

\* float(pos.get("positionInitialMargin", 0)) or 1e-6, as a fraction n/d of a cent
MarginOf(pos) ==
    LET m == GetFloat(pos, "positionInitialMargin")
    IN  IF m = 0 THEN [n |-> 1, d |-> EpsPerCent] ELSE [n |-> m, d |-> 1]

OpenEntry(pos) ==
    [symbol |-> pos.symbol,
     side_text |-> IF Float(pos.positionAmt) > 0 THEN "LONG" ELSE "SHORT",
     entry |-> Float(pos.entryPrice),
     mark |-> Float(pos.markPrice),
     margin |-> MarginOf(pos),
     notional |-> Abs(Float(pos.notional)),
     amt |-> Float(pos.positionAmt),
     pos |-> pos]

RECURSIVE ScanFrom(_, _, _)
ScanFrom(plist, i, acc) ==
    IF i > Len(plist) THEN [exc |-> "", open |-> acc]
    ELSE IF ScanExc(plist[i]) # "" THEN [exc |-> ScanExc(plist[i]), open |-> acc]
    ELSE ScanFrom(plist, i + 1,
                  IF IsOpen(plist[i]) THEN Append(acc, OpenEntry(plist[i])) ELSE acc)

ScanPositionList(plist) == ScanFrom(plist, 1, <<>>)

(***************************************************************************)
(* The risk join of one open position (lines 196-225)                      *)
(***************************************************************************)
SlAbsent ==
    [actual_sl_str |-> Dash, sl_size_str |-> Dash, sl_usd_str |-> Dash,
     sl_risk_usd |-> 0, sl_percent |-> NoneVal]

\* sl_results.get(symbol, ("-", "-", "-", 0.0, None))
SlLookup(slr, symbol) == IF symbol \in DOMAIN slr THEN slr[symbol] ELSE SlAbsent

\* the exception the iteration raises, "" when it raises none
RowExc(op, wallet) ==
    IF GetExc(op.pos, "unRealizedProfit") # "" THEN "ValueError"
    ELSE IF wallet = 0 THEN "ZeroDivisionError"    \* margin / wallet_balance
    ELSE ""

RowOf(op, slr, wallet) ==
    LET pnl == GetFloat(op.pos, "unRealizedProfit")
        pnl_pct == (pnl * 10000 * op.margin.d) \div op.margin.n
        sl == SlLookup(slr, op.symbol)
    IN  [symbol |-> op.symbol,
         side |-> <<op.side_text, IF op.amt > 0 THEN "green" ELSE "red", 0>>,
         leverage |-> <<"int", "", RoundHalfEven(op.notional * op.margin.d, op.margin.n)>>,
         entry |-> <<"num", "", op.entry>>,
         mark |-> <<"num", "", op.mark>>,
         margin |-> <<"num", "", RoundHalfEven(op.margin.n, op.margin.d)>>,
         notional |-> <<"num", "", op.notional>>,
         pnl |-> colorize_dollar(pnl),
         pnl_pct |-> colorize(pnl_pct),
         risk_pct |-> <<"pct", "", RoundHalfEven(op.margin.n * 10000, op.margin.d * wallet)>>,
         sl_price |-> sl.actual_sl_str,
         sl_size |-> sl.sl_size_str,
         sl_usd |-> sl.sl_usd_str,
         k13 |-> pnl_pct,
         k14 |-> sl.sl_risk_usd]

(***************************************************************************)
(* Report assembly: placeholders, sort, strip (lines 227-263)              *)
(***************************************************************************)
Placeholder(symbol) ==
    [symbol |-> symbol, side |-> Dash,
     leverage |-> <<"int", "", coins_config[symbol].leverage>>,
     entry |-> Dash, mark |-> Dash, margin |-> Dash, notional |-> Dash,
     pnl |-> Dash, pnl_pct |-> Dash, risk_pct |-> Dash,
     sl_price |-> Dash, sl_size |-> Dash, sl_usd |-> Dash,
     k13 |-> PlaceholderPnlKey, k14 |-> PlaceholderRiskKey]

SymbolsOf(rows) == {rows[i].symbol : i \in 1..Len(rows)}

RECURSIVE MissingFrom(_, _, _)
MissingFrom(order, i, open_symbols) ==
    IF i > Len(order) THEN <<>>
    ELSE (IF order[i] \in open_symbols THEN <<>> ELSE <<Placeholder(order[i])>>)
         \o MissingFrom(order, i + 1, open_symbols)

Pad(rows, hide_empty) ==
    IF hide_empty THEN rows
    ELSE rows \o MissingFrom(coin_order, 1, SymbolsOf(rows))

\* variant of ComesBefore: with reverse, a tie goes in front
ComesBeforeTiesFirst(a, b, reverse) == IF reverse THEN a >= b ELSE a < b

\* list.sort(key, reverse): stable in both directions
ComesBefore(a, b, reverse) == IF reverse THEN a > b ELSE a < b

RECURSIVE InsertIdx(_, _, _, _)
InsertIdx(sorted, x, keys, reverse) ==
    IF sorted = <<>> THEN <<x>>
    ELSE IF ComesBefore(keys[x], keys[Head(sorted)], reverse) THEN <<x>> \o sorted
    ELSE <<Head(sorted)>> \o InsertIdx(Tail(sorted), x, keys, reverse)

RECURSIVE SortIdx(_, _, _)
SortIdx(n, keys, reverse) ==
    IF n = 0 THEN <<>>
    ELSE InsertIdx(SortIdx(n - 1, keys, reverse), n, keys, reverse)

StableSort(rows, keys, reverse) ==
    LET perm == SortIdx(Len(rows), keys, reverse)
    IN  [i \in 1..Len(rows) |-> rows[perm[i]]]

\* coin_order.index(symbol) if symbol in coin_order else 999
OrderKey(symbol) ==
    LET at == {i \in 1..Len(coin_order) : coin_order[i] = symbol}
    IN  IF at = {} THEN UnknownOrderKey
        ELSE (CHOOSE i \in at : \A j \in at : i <= j) - 1

\* variant of SortRows: the default order is reversed by descending too
SortRowsDefaultReversed(rows, sort_by, descending) ==
    IF sort_by = "pnl_pct"
    THEN StableSort(rows, [i \in 1..Len(rows) |-> rows[i].k13], descending)
    ELSE IF sort_by = "sl_usd"
    THEN StableSort(rows, [i \in 1..Len(rows) |-> rows[i].k14], descending)
    ELSE StableSort(rows, [i \in 1..Len(rows) |-> OrderKey(rows[i].symbol)], descending)

\* lines 252-259
SortRows(rows, sort_by, descending) ==
    IF sort_by = "pnl_pct"
    THEN StableSort(rows, [i \in 1..Len(rows) |-> rows[i].k13], descending)
    ELSE IF sort_by = "sl_usd"
    THEN StableSort(rows, [i \in 1..Len(rows) |-> rows[i].k14], descending)
    ELSE StableSort(rows, [i \in 1..Len(rows) |-> OrderKey(rows[i].symbol)], FALSE)

\* row[:13]
Strip(row) == [f \in DOMAIN row \ {"k13", "k14"} |-> row[f]]

Assemble(rows, a) ==
    LET sorted == SortRows(Pad(rows, a.hide_empty), a.sort_by, a.descending)
    IN  [i \in 1..Len(sorted) |-> Strip(sorted[i])]

(***************************************************************************)
(* State of one call of fetch_open_positions                               *)
(***************************************************************************)
VARIABLES
    pc,               \* where the calling thread is
    positions,        \* answer of futures_position_information()
    balances,         \* answer of futures_account_balance()
    gw_orders,        \* answers of futures_get_open_orders, by symbol queried
    args,             \* the arguments sort_by, descending, hide_empty
    wallet_balance,
    open_positions,
    cpu_count,        \* os.cpu_count(), 0 for None
    max_workers,
    futures,          \* one future per submitted task: state and result
    collected,        \* futures that as_completed has yielded
    sl_results,
    row_i,            \* index of the next open position to join
    filtered,
    total_risk_usd,
    exc               \* exception that left fetch_open_positions, "" if none

(***************************************************************************)
(* State of display_table beyond its call of fetch_open_positions, state   *)
(* of one call of send_telegram_message, and the call of a pure function   *)
(***************************************************************************)
VARIABLES
    dt_args,          \* the arguments telegram, compact, wallet_target
    wallet,           \* line 281: wallet, unrealized = get_wallet_balance(client)
    unrealized,
    output,           \* the lines of the report; the return value once returned
    sent,             \* the summaries handed to send_telegram_message
    logged,           \* what display_table wrote with logging.error
    tg,               \* a call of send_telegram_message
    call              \* a call of a pure function: name, argument, result

(***************************************************************************)
(* State of position_monitor.main around its call of display_table, and    *)
(* the queries the gateway has answered                                    *)
(***************************************************************************)
VARIABLES
    gw_calls,         \* number of answered gateway queries, by kind
    startup,          \* outcome of create_client and of load_coins_config
    main_logged,      \* what main wrote with logging.error
    printed,          \* what main printed
    exit_code,        \* status of the process once it has ended
    price             \* a call of get_price_changes

main_vars == <<startup, main_logged, printed, exit_code>>

display_vars == <<dt_args, wallet, unrealized, output, sent, logged>>

\* what fetch_open_positions neither reads nor writes
other_vars == <<display_vars, tg, call, main_vars, price>>

vars ==
    <<pc, positions, balances, gw_orders, args, wallet_balance, open_positions,
      cpu_count, max_workers, futures, collected, sl_results, row_i, filtered,
      total_risk_usd, exc, dt_args, wallet, unrealized, output, sent, logged,
      tg, call, gw_calls, startup, main_logged, printed, exit_code, price>>

\* display_table before line 281
DisplayIdle ==
    /\ dt_args = [telegram |-> FALSE, compact |-> FALSE, wallet_target |-> 0]
    /\ wallet = 0
    /\ unrealized = 0
    /\ output = <<>>
    /\ sent = <<>>
    /\ logged = <<>>

\* send_telegram_message is not being called on its own
NoTelegramCall == [pc |-> "none"]

\* no pure function is being called on its own
NoCall == [fn |-> "none"]

\* get_price_changes is not being called
NoPriceCall == [pc |-> "none"]

\* no gateway query has been answered
NoCalls == [server_time |-> 0, positions |-> 0, balance |-> 0, orders |-> <<>>]

\* main has not started
MainIdle ==
    /\ startup = [client |-> "", config |-> ""]
    /\ main_logged = <<>>
    /\ printed = <<>>
    /\ exit_code = NoneVal

\* the values of --sort: sort.partition(":") gives the key, the separator and
\* the direction (line 66)
Partition ==
    [s \in {"default", "default:asc", "pnl_pct", "pnl_pct:ASC", "sl_usd:desc",
            "sl_usd:asc", "volume"} |->
        CASE s = "default"     -> <<"default", "", "">>
          [] s = "default:asc" -> <<"default", ":", "asc">>
          [] s = "pnl_pct"     -> <<"pnl_pct", "", "">>
          [] s = "pnl_pct:ASC" -> <<"pnl_pct", ":", "ASC">>
          [] s = "sl_usd:desc" -> <<"sl_usd", ":", "desc">>
          [] s = "sl_usd:asc"  -> <<"sl_usd", ":", "asc">>
          [] s = "volume"      -> <<"volume", "", "">>]

\* lines 66-67 and 74-81: the arguments main passes to display_table
MainArgs(sort, hide_empty) ==
    [sort_by |-> Partition[sort][1],
     descending |-> Partition[sort][3] \notin {"asc", "ASC"},  \* sort_dir.lower() != "asc"
     hide_empty |-> hide_empty]

Init ==
    /\ pc = "main"
    /\ positions = <<>>
    /\ balances = <<>>
    /\ gw_orders = <<>>
    /\ \E sort \in DOMAIN Partition, hide_empty \in BOOLEAN :
          args = MainArgs(sort, hide_empty)
    /\ wallet_balance = 0
    /\ open_positions = <<>>
    /\ cpu_count = 0
    /\ max_workers = 0
    /\ futures = <<>>
    /\ collected = {}
    /\ sl_results = <<>>
    /\ row_i = 1
    /\ filtered = <<>>
    /\ total_risk_usd = 0
    /\ exc = ""
    /\ DisplayIdle
    /\ tg = NoTelegramCall
    /\ call = NoCall
    /\ gw_calls = NoCalls
    /\ MainIdle
    /\ price = NoPriceCall

(***************************************************************************)
(* position_monitor.main up to its call of display_table (lines 45-70)     *)
(***************************************************************************)
\* create_client(): Client(api_key, api_secret) raises, or the server-time
\* query of sync_binance_time raises, or the client is returned
ClientOutcomes == {"ok", "client_raises", "server_time_raises"}

\* load_coins_config(): open() raises, json.load raises,
\* validate_coins_config raises, or the configuration is returned
ConfigOutcomes == {"ok", "open_raises", "json_raises", "validation_raises"}

\* lines 51-55: the client is created; a failure is logged and ends the
\* process with status 1
CreateClient(outcome) ==
    /\ pc = "main"
    /\ startup' = [startup EXCEPT !.client = outcome]
    /\ gw_calls' = [gw_calls EXCEPT !.server_time =
                       IF outcome = "client_raises" THEN @ ELSE @ + 1]
    /\ IF outcome = "ok"
       THEN /\ pc' = "config"
            /\ UNCHANGED <<main_logged, exit_code>>
       ELSE /\ pc' = "exit"
            /\ main_logged' = Append(main_logged, "Failed to create Binance client")
            /\ exit_code' = Some(1)
    /\ UNCHANGED <<positions, balances, gw_orders, args, wallet_balance,
                   open_positions, cpu_count, max_workers, futures, collected,
                   sl_results, row_i, filtered, total_risk_usd, exc>>
    /\ UNCHANGED <<display_vars, tg, call, price, printed>>

\* variant of LoadConfig: the failure is logged and main goes on
LoadConfigGoesOn(outcome) ==
    /\ pc = "config"
    /\ startup' = [startup EXCEPT !.config = outcome]
    /\ main_logged' = IF outcome = "ok" THEN main_logged
                      ELSE Append(main_logged, "Error loading config/coins.json")
    /\ pc' = "banner"
    /\ UNCHANGED <<positions, balances, gw_orders, args, wallet_balance,
                   open_positions, cpu_count, max_workers, futures, collected,
                   sl_results, row_i, filtered, total_risk_usd, exc>>
    /\ UNCHANGED <<display_vars, tg, call, price, gw_calls, printed, exit_code>>

\* lines 57-62: the configuration is loaded and validated; a failure is
\* logged and ends the process with status 1
LoadConfig(outcome) ==
    /\ pc = "config"
    /\ startup' = [startup EXCEPT !.config = outcome]
    /\ IF outcome = "ok"
       THEN /\ pc' = "banner"
            /\ UNCHANGED <<main_logged, exit_code>>
       ELSE /\ pc' = "exit"
            /\ main_logged' = Append(main_logged, "Error loading config/coins.json")
            /\ exit_code' = Some(1)
    /\ UNCHANGED <<positions, balances, gw_orders, args, wallet_balance,
                   open_positions, cpu_count, max_workers, futures, collected,
                   sl_results, row_i, filtered, total_risk_usd, exc>>
    /\ UNCHANGED <<display_vars, tg, call, price, gw_calls, printed>>

\* lines 64-71: the wallet target is read, --sort is split, the screen is
\* cleared, the banner is printed and display_table is called
MainBanner ==
    /\ pc = "banner"
    /\ printed' = Append(printed, "banner")
    /\ pc' = "start"
    /\ UNCHANGED <<positions, balances, gw_orders, args, wallet_balance,
                   open_positions, cpu_count, max_workers, futures, collected,
                   sl_results, row_i, filtered, total_risk_usd, exc>>
    /\ UNCHANGED <<display_vars, tg, call, price, gw_calls, startup, main_logged,
                   exit_code>>

\* line 114: positions = client.futures_position_information()
FetchPositions ==
    /\ pc = "start"
    /\ \E plist \in PositionLists : positions' = plist
    /\ pc' = "balance"
    /\ UNCHANGED <<balances, gw_orders, args, wallet_balance, open_positions,
                   cpu_count, max_workers, futures, collected, sl_results,
                   row_i, filtered, total_risk_usd, exc>>
    /\ gw_calls' = [gw_calls EXCEPT !.positions = @ + 1]
    /\ UNCHANGED other_vars

\* line 116: wallet_balance, _ = get_wallet_balance(client)
GetWalletBalance ==
    /\ pc = "balance"
    /\ \E blist \in BalanceLists :
          /\ balances' = blist
          /\ wallet_balance' = get_wallet_balance(blist)[1]
    /\ pc' = "scan"
    /\ UNCHANGED <<positions, gw_orders, args, open_positions, cpu_count,
                   max_workers, futures, collected, sl_results, row_i,
                   filtered, total_risk_usd, exc>>
    /\ gw_calls' = [gw_calls EXCEPT !.balance = @ + 1]
    /\ UNCHANGED other_vars

\* lines 119-134: the loop over positions; an exception leaves the function
ScanPositions ==
    /\ pc = "scan"
    /\ LET r == ScanPositionList(positions)
       IN  IF r.exc # ""
           THEN /\ pc' = "raised"
                /\ exc' = r.exc
                /\ UNCHANGED open_positions
           ELSE /\ pc' = "pool"
                /\ open_positions' = r.open
                /\ UNCHANGED exc
    /\ UNCHANGED <<positions, balances, gw_orders, args, wallet_balance,
                   cpu_count, max_workers, futures, collected, sl_results,
                   row_i, filtered, total_risk_usd>>
    /\ UNCHANGED <<gw_calls, other_vars>>

\* variant of PoolSize: one worker per core
PoolSizeAllCores(cpu) == Max(1, IF cpu = 0 THEN 1 ELSE cpu)

\* max(1, (os.cpu_count() or 1) // 2)
PoolSize(cpu) == Max(1, (IF cpu = 0 THEN 1 ELSE cpu) \div 2)

\* lines 167-170: sl_results = {}, the pool is created
CreatePool ==
    /\ pc = "pool"
    /\ \E cpu \in CpuCounts :
          /\ cpu_count' = cpu
          /\ max_workers' = PoolSize(cpu)
    /\ sl_results' = <<>>
    /\ pc' = "submit"
    /\ UNCHANGED <<positions, balances, gw_orders, args, wallet_balance,
                   open_positions, futures, collected, row_i, filtered,
                   total_risk_usd, exc>>
    /\ UNCHANGED <<gw_calls, other_vars>>

Running == {i \in 1..Len(futures) : futures[i].state = "running"}

Finished == {i \in 1..Len(futures) : futures[i].state = "finished"}

\* lines 171-183: executor.submit for the next open position
Submit ==
    /\ pc = "submit"
    /\ Len(futures) < Len(open_positions)
    /\ futures' = Append(futures, [state |-> "pending", result |-> NoneVal])
    /\ UNCHANGED <<pc, positions, balances, gw_orders, args, wallet_balance,
                   open_positions, cpu_count, max_workers, collected,
                   sl_results, row_i, filtered, total_risk_usd, exc>>
    /\ UNCHANGED <<gw_calls, other_vars>>

\* line 184: every task is submitted, as_completed(futures) starts
AsCompleted ==
    /\ pc = "submit"
    /\ Len(futures) = Len(open_positions)
    /\ pc' = "collect"
    /\ UNCHANGED <<positions, balances, gw_orders, args, wallet_balance,
                   open_positions, cpu_count, max_workers, futures, collected,
                   sl_results, row_i, filtered, total_risk_usd, exc>>
    /\ UNCHANGED <<gw_calls, other_vars>>

\* a worker of the pool takes the oldest queued task; the pool has at most
\* max_workers workers
StartTask(i) ==
    /\ pc \in {"submit", "collect"}
    /\ futures[i].state = "pending"
    /\ \A j \in 1..(i - 1) : futures[j].state # "pending"
    /\ Cardinality(Running) < max_workers
    /\ futures' = [futures EXCEPT ![i].state = "running"]
    /\ UNCHANGED <<pc, positions, balances, gw_orders, args, wallet_balance,
                   open_positions, cpu_count, max_workers, collected,
                   sl_results, row_i, filtered, total_risk_usd, exc>>
    /\ UNCHANGED <<gw_calls, other_vars>>

\* one more answered open-orders query of the task of open position i
Counted(orders, i) ==
    [j \in DOMAIN orders \cup {i} |->
        (IF j \in DOMAIN orders THEN orders[j] ELSE 0) + (IF j = i THEN 1 ELSE 0)]

\* the task queries the open orders of its symbol and fetch_sl returns; the
\* gateway gives one and the same answer for a symbol during the call
FinishTask(i) ==
    /\ futures[i].state = "running"
    /\ LET op == open_positions[i]
       IN  \E answer \in OrderAnswers :
             /\ op.symbol \in DOMAIN gw_orders => answer = gw_orders[op.symbol]
             /\ gw_orders' = (op.symbol :> answer) @@ gw_orders
             /\ futures' = [futures EXCEPT ![i] =
                   [state |-> "finished",
                    result |-> fetch_sl(op.symbol, op.side_text, op.entry,
                                        op.notional, answer)]]
    /\ UNCHANGED <<pc, positions, balances, args, wallet_balance,
                   open_positions, cpu_count, max_workers, collected,
                   sl_results, row_i, filtered, total_risk_usd, exc>>
    /\ gw_calls' = [gw_calls EXCEPT !.orders = Counted(@, i)]
    /\ UNCHANGED other_vars

\* variant of Store: a failed or empty lookup leaves no entry
StoreUnlessAbsent(slr, r) ==
    IF r.sl_percent = NoneVal THEN slr
    ELSE (r.symbol :> [actual_sl_str |-> r.actual_sl_str,
                       sl_size_str |-> r.sl_size_str,
                       sl_usd_str |-> r.sl_usd_str,
                       sl_risk_usd |-> r.sl_risk_usd,
                       sl_percent |-> r.sl_percent]) @@ slr

\* sl_results[symbol] = (...)
Store(slr, r) ==
    (r.symbol :> [actual_sl_str |-> r.actual_sl_str,
                  sl_size_str |-> r.sl_size_str,
                  sl_usd_str |-> r.sl_usd_str,
                  sl_risk_usd |-> r.sl_risk_usd,
                  sl_percent |-> r.sl_percent]) @@ slr

\* lines 184-194: as_completed yields a finished future, its result is stored
Collect(i) ==
    /\ pc = "collect"
    /\ futures[i].state = "finished"
    /\ i \notin collected
    /\ collected' = collected \cup {i}
    /\ sl_results' = Store(sl_results, futures[i].result)
    /\ UNCHANGED <<pc, positions, balances, gw_orders, args, wallet_balance,
                   open_positions, cpu_count, max_workers, futures, row_i,
                   filtered, total_risk_usd, exc>>
    /\ UNCHANGED <<gw_calls, other_vars>>

\* variant of ExitPool: the join loop is left after the first yielded future
ExitPoolOnFirst ==
    /\ pc = "collect"
    /\ collected # {} \/ futures = <<>>
    /\ pc' = "rows"
    /\ UNCHANGED <<positions, balances, gw_orders, args, wallet_balance,
                   open_positions, cpu_count, max_workers, futures, collected,
                   sl_results, row_i, filtered, total_risk_usd, exc>>
    /\ UNCHANGED <<gw_calls, other_vars>>

\* every future was yielded: the loop ends and the with block is left
ExitPool ==
    /\ pc = "collect"
    /\ collected = 1..Len(futures)
    /\ pc' = "rows"
    /\ UNCHANGED <<positions, balances, gw_orders, args, wallet_balance,
                   open_positions, cpu_count, max_workers, futures, collected,
                   sl_results, row_i, filtered, total_risk_usd, exc>>
    /\ UNCHANGED <<gw_calls, other_vars>>

\* variant of AddRisk: only a positive risk is added
AddRiskIfPositive(total, sl_risk_usd) ==
    IF sl_risk_usd > 0 THEN total + sl_risk_usd ELSE total

\* lines 206-207: if sl_risk_usd: total_risk_usd += sl_risk_usd
AddRisk(total, sl_risk_usd) ==
    IF sl_risk_usd # 0 THEN total + sl_risk_usd ELSE total

\* lines 196-225: one iteration of the join loop
BuildRow ==
    /\ pc = "rows"
    /\ row_i <= Len(open_positions)
    /\ LET op == open_positions[row_i]
           e == RowExc(op, wallet_balance)
           risk == SlLookup(sl_results, op.symbol).sl_risk_usd
       IN  IF e # ""
           THEN /\ pc' = "raised"
                /\ exc' = e
                /\ UNCHANGED <<row_i, filtered, total_risk_usd>>
           ELSE /\ filtered' = Append(filtered, RowOf(op, sl_results, wallet_balance))
                /\ total_risk_usd' = AddRisk(total_risk_usd, risk)
                /\ row_i' = row_i + 1
                /\ UNCHANGED <<pc, exc>>
    /\ UNCHANGED <<positions, balances, gw_orders, args, wallet_balance,
                   open_positions, cpu_count, max_workers, futures, collected,
                   sl_results>>
    /\ UNCHANGED <<gw_calls, other_vars>>

\* lines 227-263: placeholders, sort, strip, return
AssembleReport ==
    /\ pc = "rows"
    /\ row_i > Len(open_positions)
    /\ filtered' = Assemble(filtered, args)
    /\ pc' = "done"
    /\ UNCHANGED <<positions, balances, gw_orders, args, wallet_balance,
                   open_positions, cpu_count, max_workers, futures, collected,
                   sl_results, row_i, total_risk_usd, exc>>
    /\ UNCHANGED <<gw_calls, other_vars>>

(***************************************************************************)
(* display_table after fetch_open_positions has returned (lines 281-345)   *)
(***************************************************************************)
\* a / b in hundredths of a percent, b > 0
RatioBp(a, b) == (a \div b) * 10000 + RoundHalfEven((a % b) * 10000, b)

\* lines 284-286: the margins of the rows whose margin field is a number
RECURSIVE UsedMargin(_, _)
UsedMargin(table, i) ==
    IF i > Len(table) THEN 0
    ELSE (IF table[i].margin # Dash THEN table[i].margin[3] ELSE 0)
         + UsedMargin(table, i + 1)

\* color_risk_usd(value, total_balance)
color_risk_usd(value, total_balance) ==
    LET pct == IF total_balance # 0 THEN RatioBp(value, total_balance) ELSE 0
        below(k) == total_balance # 0 /\ value * 100 < k * total_balance
    IN  [value |-> value, pct |-> pct,
         colour |-> IF below(-50) THEN "red"
                    ELSE IF below(-30) THEN "yellow" ELSE "green"]

\* the least n with c * 2^n >= t, for 0 < c: the double c / t has the binary
\* exponent -n
RECURSIVE Shifts(_, _)
Shifts(c, t) == IF c >= t THEN 0 ELSE 1 + Shifts(2 * c, t)

\* r * 2^s modulo t
RECURSIVE Shifted(_, _, _)
Shifted(r, t, s) == IF s = 0 THEN r ELSE Shifted((2 * r) % t, t, s - 1)

RECURSIVE Log2(_)
Log2(k) == IF k < 2 THEN 0 ELSE 1 + Log2(k \div 2)

RECURSIVE Pow2(_)
Pow2(e) == IF e = 0 THEN 1 ELSE 2 * Pow2(e - 1)

\* lines 74-75, bar_length * pct with pct = current / target, in IEEE-754 double
\* arithmetic (53 significant bits, round to nearest): the quotient is rounded
\* first, and when it was rounded down by more than half of the spacing of
\* the doubles below the whole number bar_length * current / target, the
\* product is a double below that whole number
DoubleProductBelow(b, c, t) ==
    IF c <= 0 \/ c >= t \/ b * c < t \/ (b * c) % t # 0 THEN FALSE
    ELSE LET n == Shifts(c, t)
             r == Shifted(c % t, t, 52 + n)
             k == (b * c) \div t
             m == Log2(k)
         IN  /\ r # 0
             /\ 2 * r < t
             /\ (IF k = Pow2(m) THEN 2 * b * r ELSE b * r) > t * Pow2(m + n - 1)

\* line 75: int(bar_length * pct)
Filled(b, c, t) ==
    (b * c) \div t - (IF DoubleProductBelow(b, c, t) THEN 1 ELSE 0)

\* display_progress_bar(current, target, bar_length): no text for a
\* target <= 0
display_progress_bar(current, target, bar_length) ==
    IF target <= 0 THEN <<>>
    ELSE LET full == current >= target
             none == current <= 0
             filled == IF full THEN bar_length
                       ELSE IF none THEN 0
                       ELSE Filled(bar_length, current, target)
         IN  <<[current |-> current, target |-> target,
                filled |-> filled,
                empty |-> bar_length - filled,
                colour |-> IF full THEN "green"
                           ELSE IF 2 * current >= target THEN "yellow" ELSE "red",
                pct |-> IF full THEN 1000
                        ELSE IF none THEN 0
                        ELSE RoundHalfEven(current * 1000, target)]>>

\* line 283
UnrealizedPct(w, u) == IF w # 0 THEN RatioBp(u, w) ELSE 0

\* variant of AvailableBalance: the unrealized PnL is left out
AvailableBalanceOfWallet(table, w, u) == w - UsedMargin(table, 1)

\* lines 282-287: total - used_margin
AvailableBalance(table, w, u) == (w + u) - UsedMargin(table, 1)

\* lines 288-331: the lines of the report
RenderOutput(table, risk, w, u, a, d) ==
    [wallet |-> w,
     available_balance |-> AvailableBalance(table, w, u),
     unrealized |-> colorize_dollar(u),
     unrealized_pct |-> colorize(UnrealizedPct(w, u)),
     total |-> w + u,
     risk |-> color_risk_usd(risk, w),
     bar |-> IF d.wallet_target > 0
             THEN display_progress_bar(w + u, d.wallet_target, BarLength)
             ELSE <<>>,
     table |-> IF d.compact THEN <<>> ELSE <<table>>,
     sorted_by |-> IF ~d.compact /\ a.sort_by # "default"
                   THEN <<a.sort_by,
                          IF a.descending THEN "descending" ELSE "ascending">>
                   ELSE <<>>]

\* lines 333-340: the text of the notification
Summary(table, risk, w, u) ==
    [wallet |-> w,
     available_balance |-> AvailableBalance(table, w, u),
     unrealized |-> u,
     unrealized_pct |-> UnrealizedPct(w, u),
     total |-> w + u,
     risk |-> risk]

DisplayArgSets ==
    [telegram : BOOLEAN, compact : BOOLEAN, wallet_target : WalletTargets]

\* variant of DTGetWalletBalance: the balance of line 116 is used again
DTReuseWalletBalance ==
    /\ pc = "done"
    /\ wallet' = get_wallet_balance(balances)[1]
    /\ unrealized' = get_wallet_balance(balances)[2]
    /\ pc' = "header"
    /\ UNCHANGED <<positions, balances, gw_orders, args, wallet_balance,
                   open_positions, cpu_count, max_workers, futures, collected,
                   sl_results, row_i, filtered, total_risk_usd, exc>>
    /\ UNCHANGED <<dt_args, output, sent, logged, tg, call, price, gw_calls, main_vars>>

\* line 281: the second wallet query
DTGetWalletBalance ==
    /\ pc = "done"
    /\ \E blist \in BalanceLists :
          /\ wallet' = get_wallet_balance(blist)[1]
          /\ unrealized' = get_wallet_balance(blist)[2]
    /\ gw_calls' = [gw_calls EXCEPT !.balance = @ + 1]
    /\ pc' = "header"
    /\ UNCHANGED <<positions, balances, gw_orders, args, wallet_balance,
                   open_positions, cpu_count, max_workers, futures, collected,
                   sl_results, row_i, filtered, total_risk_usd, exc>>
    /\ UNCHANGED <<dt_args, output, sent, logged, tg, call, price, main_vars>>

\* display_table has returned: main prints the text and ends
\* (position_monitor.py lines 71-83)
MainPrint ==
    /\ printed' = Append(printed, "report")
    /\ exit_code' = Some(0)

\* lines 282-331: the report is built; telegram, compact and wallet_target
\* are first read here, which is where the model draws them.  A compact
\* report is returned at line 302.
DTRender ==
    /\ pc = "header"
    /\ \E d \in DisplayArgSets :
          /\ dt_args' = d
          /\ output' = RenderOutput(filtered, total_risk_usd, wallet, unrealized,
                                    args, d)
          /\ pc' = IF d.compact THEN "returned"
                   ELSE IF d.telegram THEN "send" ELSE "returned"
          /\ IF ~d.compact /\ d.telegram
             THEN UNCHANGED <<printed, exit_code>>
             ELSE MainPrint
    /\ UNCHANGED <<positions, balances, gw_orders, args, wallet_balance,
                   open_positions, cpu_count, max_workers, futures, collected,
                   sl_results, row_i, filtered, total_risk_usd, exc>>
    /\ UNCHANGED <<wallet, unrealized, sent, logged, tg, call, price, gw_calls,
                   startup, main_logged>>

\* variant of DTSend: an exception of the send leaves display_table
DTSendPropagates(outcome) ==
    /\ pc = "send"
    /\ sent' = Append(sent, Summary(filtered, total_risk_usd, wallet, unrealized))
    /\ IF outcome = "raises"
       THEN pc' = "raised" /\ exc' = "TelegramError"
                            /\ UNCHANGED <<printed, exit_code>>
       ELSE pc' = "returned" /\ UNCHANGED exc /\ MainPrint
    /\ UNCHANGED <<positions, balances, gw_orders, args, wallet_balance,
                   open_positions, cpu_count, max_workers, futures, collected,
                   sl_results, row_i, filtered, total_risk_usd>>
    /\ UNCHANGED <<dt_args, wallet, unrealized, output, logged, tg, call, price,
                   gw_calls, startup, main_logged>>

\* lines 332-345: the summary is sent; an exception is logged; return
DTSend(outcome) ==
    /\ pc = "send"
    /\ sent' = Append(sent, Summary(filtered, total_risk_usd, wallet, unrealized))
    /\ logged' = IF outcome = "raises"
                 THEN Append(logged, "Telegram message failed") ELSE logged
    /\ pc' = "returned"
    /\ MainPrint
    /\ UNCHANGED <<positions, balances, gw_orders, args, wallet_balance,
                   open_positions, cpu_count, max_workers, futures, collected,
                   sl_results, row_i, filtered, total_risk_usd, exc>>
    /\ UNCHANGED <<dt_args, wallet, unrealized, output, tg, call, price, gw_calls,
                   startup, main_logged>>

Next ==
    \/ \E outcome \in ClientOutcomes : CreateClient(outcome)
    \/ \E outcome \in ConfigOutcomes : LoadConfig(outcome)
    \/ MainBanner
    \/ FetchPositions
    \/ GetWalletBalance
    \/ ScanPositions
    \/ CreatePool
    \/ Submit
    \/ AsCompleted
    \/ \E i \in 1..Len(futures) : StartTask(i)
    \/ \E i \in 1..Len(futures) : FinishTask(i)
    \/ \E i \in 1..Len(futures) : Collect(i)
    \/ ExitPool
    \/ BuildRow
    \/ AssembleReport
    \/ DTGetWalletBalance
    \/ DTRender
    \/ \E outcome \in SendOutcomes : DTSend(outcome)

Spec == Init /\ [][Next]_vars

(***************************************************************************)
(* A pure function called on its own                                       *)
(***************************************************************************)
fetch_vars ==
    <<pc, positions, balances, gw_orders, args, wallet_balance, open_positions,
      cpu_count, max_workers, futures, collected, sl_results, row_i, filtered,
      total_risk_usd, exc, gw_calls>>

\* no call of fetch_open_positions is under way
FetchIdle ==
    /\ pc = "none"
    /\ positions = <<>>
    /\ balances = <<>>
    /\ gw_orders = <<>>
    /\ args = [sort_by |-> "default", descending |-> TRUE, hide_empty |-> FALSE]
    /\ wallet_balance = 0
    /\ open_positions = <<>>
    /\ cpu_count = 0
    /\ max_workers = 0
    /\ futures = <<>>
    /\ collected = {}
    /\ sl_results = <<>>
    /\ row_i = 1
    /\ filtered = <<>>
    /\ total_risk_usd = 0
    /\ exc = ""
    /\ gw_calls = NoCalls

(***************************************************************************)
(* send_telegram_message called on its own (src/utils/telegram.py)         *)
(***************************************************************************)
\* a credential: None, the empty string, or a value
Credentials(value) == {NoneVal, Some(""), Some(value)}

\* bool(c) of a credential
Truthy(c) == c # NoneVal /\ c # Some("")

\* a or b
Or(a, b) == IF Truthy(a) THEN a ELSE b

\* what requests.post does: it returns, or it raises
PostOutcomes == {"ok", "ConnectionError", "Timeout"}

InitTelegram ==
    /\ FetchIdle
    /\ DisplayIdle
    /\ MainIdle
    /\ price = NoPriceCall
    /\ call = NoCall
    /\ tg \in [pc : {"start"},
                arg_token : Credentials("token"),
                arg_chat_id : Credentials("chat"),
                env_token : Credentials("env-token"),
                env_chat_id : Credentials("env-chat"),
                bot_token : {NoneVal},
                chat_id : {NoneVal},
                posts : {<<>>},
                logged : {<<>>}]

\* lines 21-24: the arguments, or the environment when one of them is None
TgCredentials ==
    /\ tg.pc = "start"
    /\ tg' = IF tg.arg_token = NoneVal \/ tg.arg_chat_id = NoneVal
             THEN [tg EXCEPT !.pc = "check",
                             !.bot_token = Or(tg.arg_token, tg.env_token),
                             !.chat_id = Or(tg.arg_chat_id, tg.env_chat_id)]
             ELSE [tg EXCEPT !.pc = "check",
                             !.bot_token = tg.arg_token,
                             !.chat_id = tg.arg_chat_id]
    /\ UNCHANGED <<fetch_vars, display_vars, main_vars, call, price>>

\* lines 26-28: not configured, logged, return
TgCheck ==
    /\ tg.pc = "check"
    /\ tg' = IF ~Truthy(tg.bot_token) \/ ~Truthy(tg.chat_id)
             THEN [tg EXCEPT !.pc = "returned",
                             !.logged = Append(@, "Telegram not configured properly.")]
             ELSE [tg EXCEPT !.pc = "post"]
    /\ UNCHANGED <<fetch_vars, display_vars, main_vars, call, price>>

\* variant of TgPost: an exception of the request leaves the function
TgPostPropagates(outcome) ==
    /\ tg.pc = "post"
    /\ tg' = [tg EXCEPT !.pc = IF outcome = "ok" THEN "returned" ELSE "raised",
                        !.posts = Append(@, [bot_token |-> tg.bot_token,
                                             chat_id |-> tg.chat_id])]
    /\ UNCHANGED <<fetch_vars, display_vars, main_vars, call, price>>

\* lines 30-41: one request; an exception it raises is logged
TgPost(outcome) ==
    /\ tg.pc = "post"
    /\ tg' = [tg EXCEPT !.pc = "returned",
                        !.posts = Append(@, [bot_token |-> tg.bot_token,
                                             chat_id |-> tg.chat_id]),
                        !.logged = IF outcome = "ok" THEN @
                                   ELSE Append(@, "Failed to send Telegram message")]
    /\ UNCHANGED <<fetch_vars, display_vars, main_vars, call, price>>

NextTelegram ==
    \/ TgCredentials
    \/ TgCheck
    \/ \E outcome \in PostOutcomes : TgPost(outcome)

SpecTelegram == InitTelegram /\ [][NextTelegram]_vars

(***************************************************************************)
(* get_price_changes and batch_get_klines (monitor/price_lib.py)           *)
(***************************************************************************)
\* the symbols requested, without repetition: they are the keys of the
\* configuration
SymbolLists == {<<>>, <<"BTCUSDT">>, <<"ETHUSDT", "BTCUSDT">>}

\* line 174
intervals_lookbacks == <<<<"15m", 15>>, <<"1h", 60>>>>

BtcTicker ==
    [symbol |-> "BTCUSDT", lastPrice |-> "100", priceChangePercent |-> "1"]

EthTicker ==
    [symbol |-> "ETHUSDT", lastPrice |-> "100", priceChangePercent |-> "-1"]

\* a ticker without the lastPrice key
EthTickerNoPrice == [symbol |-> "ETHUSDT", priceChangePercent |-> "-1"]

\* client.get_ticker(): it raises, or it returns a list of tickers
TickerAnswers ==
    {[raises |-> TRUE, tickers |-> <<>>]}
    \cup {[raises |-> FALSE, tickers |-> t] :
            t \in {<<>>, <<BtcTicker>>, <<BtcTicker, EthTicker>>,
                   <<BtcTicker, EthTickerNoPrice>>}}

\* a kline is a list whose second element is the open price
Kline(open) == <<0, open>>

\* client.get_klines(...): it raises, or it returns a list of klines
KlineAnswers ==
    {[raises |-> TRUE, klines |-> <<>>]}
    \cup {[raises |-> FALSE, klines |-> k] :
            k \in {<<>>, <<Kline("90")>>, <<Kline("90"), Kline("110")>>}}

\* get_open_price_asia: None, or the open price in cents
AsiaOpens == {NoneVal, Some(8000)}

\* lines 101-107: klines[-1] if klines else None; None when the query raises
FetchKline(answer) ==
    IF answer.raises \/ answer.klines = <<>> THEN NoneVal
    ELSE Some(answer.klines[Len(answer.klines)])

\* lines 112-116: one task per symbol and interval, symbols outermost
RECURSIVE TaskKeys(_)
TaskKeys(symbols) ==
    IF symbols = <<>> THEN <<>>
    ELSE [j \in 1..Len(intervals_lookbacks) |->
             <<Head(symbols), intervals_lookbacks[j][1]>>]
         \o TaskKeys(Tail(symbols))

\* line 169: {t["symbol"]: t for t in all_tickers}
TickerMap(tickers) ==
    [s \in {tickers[i].symbol : i \in 1..Len(tickers)} |->
        LET last == CHOOSE i \in 1..Len(tickers) :
                       /\ tickers[i].symbol = s
                       /\ \A j \in (i + 1)..Len(tickers) : tickers[j].symbol # s
        IN  tickers[last]]

\* format_pct(pct), pct in hundredths of a percent
format_pct(pct) ==
    IF pct > 0 THEN <<"pct", "green", pct>>
    ELSE IF pct < 0 THEN <<"pct", "red", pct>>
    ELSE <<"pct", "yellow", pct>>

\* format_pct_simple(pct)
format_pct_simple(pct) == <<"pct", "", pct>>

ErrorCell == <<"Error", "", 0>>

EmptyCell == <<"", "", 0>>

\* [symbol, "Error", "", "", "", ""]
ErrorRow(symbol) ==
    [symbol |-> symbol, last_price |-> ErrorCell,
     change_15m |-> EmptyCell, change_1h |-> EmptyCell,
     change_asia |-> EmptyCell, change_24h |-> EmptyCell]

\* dict.get(key): None for a missing key
Get(map, key) == IF key \in DOMAIN map THEN map[key] ELSE NoneVal

\* ((last_price - open) / open) * 100 if open else 0
Change(last_price, open) ==
    IF open # 0 THEN RatioBp(last_price - open, open) ELSE 0

\* lines 181-220, one iteration: the row appended and the entries added to
\* invalid_symbols
PriceRow(symbol, ticker_map, kline_map, asia_open_map, telegram) ==
    IF symbol \notin DOMAIN ticker_map
    THEN [row |-> ErrorRow(symbol), invalid |-> {<<symbol, "Ticker not found">>}]
    ELSE LET ticker == ticker_map[symbol]
         IN  IF "lastPrice" \notin DOMAIN ticker
             THEN [row |-> ErrorRow(symbol), invalid |-> {<<symbol, "'lastPrice'">>}]
             ELSE IF ~CanFloat(ticker.lastPrice) \/ ~CanFloat(ticker.priceChangePercent)
             THEN [row |-> ErrorRow(symbol),
                   invalid |-> {<<symbol, "could not convert string to float">>}]
             ELSE
             LET last_price == Float(ticker.lastPrice)
                 change_24h == Float(ticker.priceChangePercent)
                 k15 == Get(kline_map, <<symbol, "15m">>)
                 k60 == Get(kline_map, <<symbol, "1h">>)
                 open_15 == IF k15 # NoneVal THEN Float(k15[1][2]) ELSE last_price
                 open_60 == IF k60 # NoneVal THEN Float(k60[1][2]) ELSE last_price
                 asia_open == Get(asia_open_map, symbol)
                 change_asia == IF asia_open # NoneVal
                                THEN Change(last_price, asia_open[1]) ELSE 0
                 fmt(v) == IF telegram THEN format_pct_simple(v) ELSE format_pct(v)
             IN  [row |-> [symbol |-> symbol,
                           last_price |-> <<"num", "", last_price>>,
                           change_15m |-> fmt(Change(last_price, open_15)),
                           change_1h |-> fmt(Change(last_price, open_60)),
                           change_asia |-> fmt(change_asia),
                           change_24h |-> fmt(change_24h)],
                  invalid |-> {}]

\* lines 180-221: the loop over the symbols
RECURSIVE PriceRows(_, _, _, _, _)
PriceRows(symbols, ticker_map, kline_map, asia_open_map, telegram) ==
    IF symbols = <<>> THEN [table |-> <<>>, invalid |-> {}]
    ELSE LET r == PriceRow(Head(symbols), ticker_map, kline_map,
                           asia_open_map, telegram)
             rest == PriceRows(Tail(symbols), ticker_map, kline_map,
                               asia_open_map, telegram)
         IN  [table |-> <<r.row>> \o rest.table,
              invalid |-> r.invalid \cup rest.invalid]

\* line 172: one "Error" row per symbol
RECURSIVE ErrorRows(_)
ErrorRows(symbols) ==
    IF symbols = <<>> THEN <<>>
    ELSE <<ErrorRow(Head(symbols))>> \o ErrorRows(Tail(symbols))

InitPrice ==
    /\ FetchIdle
    /\ DisplayIdle
    /\ MainIdle
    /\ tg = NoTelegramCall
    /\ call = NoCall
    /\ \E symbols \in SymbolLists :
          price = [pc |-> "start", symbols |-> symbols,
                   tickers |-> <<>>, cpu_count |-> 0, max_workers |-> 0,
                   futures |-> <<>>, gw_klines |-> <<>>, order |-> <<>>,
                   results |-> <<>>, asia_open_map |-> <<>>,
                   telegram |-> FALSE, table |-> <<>>,
                   invalid_symbols |-> {}, logged |-> <<>>]

PriceUnchanged == UNCHANGED <<fetch_vars, display_vars, main_vars, tg, call>>

\* lines 167-172: the all-tickers query; when it raises, the error is logged
\* and one "Error" row per symbol is returned with an empty set
PGetTicker ==
    /\ price.pc = "start"
    /\ \E answer \in TickerAnswers :
          IF answer.raises
          THEN price' = [price EXCEPT !.pc = "returned",
                            !.logged = Append(@, "Error fetching all tickers"),
                            !.table = ErrorRows(price.symbols),
                            !.invalid_symbols = {}]
          ELSE price' = [price EXCEPT !.pc = "pool", !.tickers = answer.tickers]
    /\ PriceUnchanged

\* lines 94 and 109-111: results = {}, the pool of batch_get_klines is created
PCreatePool ==
    /\ price.pc = "pool"
    /\ \E cpu \in CpuCounts :
          price' = [price EXCEPT !.pc = "submit", !.cpu_count = cpu,
                                 !.max_workers = PoolSize(cpu)]
    /\ PriceUnchanged

\* lines 112-116: executor.submit for the next symbol and interval
PSubmit ==
    /\ price.pc = "submit"
    /\ LET keys == TaskKeys(price.symbols)
           n == Len(price.futures)
       IN  IF n < Len(keys)
           THEN price' = [price EXCEPT !.futures =
                             Append(@, [key |-> keys[n + 1], state |-> "pending",
                                        result |-> NoneVal])]
           ELSE price' = [price EXCEPT !.pc = "collect"]
    /\ PriceUnchanged

\* a free worker takes the oldest pending task
PStartTask(i) ==
    /\ price.pc \in {"submit", "collect"}
    /\ price.futures[i].state = "pending"
    /\ \A j \in 1..(i - 1) : price.futures[j].state # "pending"
    /\ Cardinality({j \in 1..Len(price.futures) :
                        price.futures[j].state = "running"}) < price.max_workers
    /\ price' = [price EXCEPT !.futures[i].state = "running"]
    /\ PriceUnchanged

\* lines 96-107: fetch queries the klines of its symbol and interval and
\* returns the key with the last kline or None
PFinishTask(i) ==
    /\ price.pc \in {"submit", "collect"}
    /\ price.futures[i].state = "running"
    /\ \E answer \in KlineAnswers :
          price' = [price EXCEPT
                       !.gw_klines = (i :> answer) @@ @,
                       !.futures[i] = [key |-> @.key, state |-> "finished",
                                       result |-> FetchKline(answer)]]
    /\ PriceUnchanged

\* lines 117-119: as_completed yields a finished future; results[key] = kline
PCollect(i) ==
    /\ price.pc = "collect"
    /\ price.futures[i].state = "finished"
    /\ \A j \in 1..Len(price.order) : price.order[j] # i
    /\ price' = [price EXCEPT
                    !.order = Append(@, i),
                    !.results = (price.futures[i].key :> price.futures[i].result) @@ @]
    /\ PriceUnchanged

\* variant of PExitPool: the loop ends with the first future yielded
PExitPoolOnFirst ==
    /\ price.pc = "collect"
    /\ price.order # <<>> \/ price.futures = <<>>
    /\ price' = [price EXCEPT !.pc = "asia"]
    /\ PriceUnchanged

\* lines 117-120: the loop ends when every future has been yielded; the
\* with-block is left and results is returned
PExitPool ==
    /\ price.pc = "collect"
    /\ Len(price.order) = Len(price.futures)
    /\ price' = [price EXCEPT !.pc = "asia"]
    /\ PriceUnchanged

\* line 176: batch_get_asia_open returns one entry per symbol
PAsiaOpen ==
    /\ price.pc = "asia"
    /\ \E m \in [{price.symbols[i] : i \in 1..Len(price.symbols)} -> AsiaOpens] :
          price' = [price EXCEPT !.pc = "rows", !.asia_open_map = m]
    /\ PriceUnchanged

\* lines 178-222: the rows are built in request order and returned
PBuildTable ==
    /\ price.pc = "rows"
    /\ \E telegram \in BOOLEAN :
          LET r == PriceRows(price.symbols, TickerMap(price.tickers),
                             price.results, price.asia_open_map, telegram)
          IN  price' = [price EXCEPT !.pc = "returned", !.telegram = telegram,
                                     !.table = r.table,
                                     !.invalid_symbols = r.invalid]
    /\ PriceUnchanged

NextPrice ==
    \/ PGetTicker
    \/ PCreatePool
    \/ PSubmit
    \/ \E i \in 1..Len(price.futures) : PStartTask(i)
    \/ \E i \in 1..Len(price.futures) : PFinishTask(i)
    \/ \E i \in 1..Len(price.futures) : PCollect(i)
    \/ PExitPool
    \/ PAsiaOpen
    \/ PBuildTable

SpecPrice == InitPrice /\ [][NextPrice]_vars

(***************************************************************************)
(* sort_table (monitor/price_lib.py lines 48-70)                           *)
(***************************************************************************)
\* the headers of the price table
Headers == <<"Symbol", "Last Price", "15m %", "1h %", "Since Asia 8AM", "24h %">>

\* headers.index(name)
Index(headers, name) == CHOOSE i \in 1..Len(headers) : headers[i] = name

\* lines 52-57
sort_key_map(headers) ==
    [col \in {"change_15m", "change_1h", "change_asia", "change_24h"} |->
        CASE col = "change_15m"  -> Index(headers, "15m %")
          [] col = "change_1h"   -> Index(headers, "1h %")
          [] col = "change_asia" -> Index(headers, "Since Asia 8AM")
          [] col = "change_24h"  -> Index(headers, "24h %")]

\* float("-inf"): below every value of a cell
NegInf == -1000000000

\* variant of parse_value: the colour codes are not removed, so that a
\* coloured cell is not a number
ParseValueKeepsColour(cell) ==
    IF cell[1] \in {"pct", "num"} /\ cell[2] = "" THEN cell[3] ELSE NegInf

\* lines 61-68: the colour codes and the percent sign are removed; the number
\* read, or -inf when the rest is not a number
parse_value(cell) ==
    IF cell[1] \in {"pct", "num"} THEN cell[3] ELSE NegInf

\* sort_table(table, headers, col, order): the exception raised, or the
\* sorted table
sort_table(table, headers, col, order) ==
    IF col \notin DOMAIN sort_key_map(headers)
    THEN [exc |-> "KeyError", rows |-> <<>>]
    ELSE LET idx == sort_key_map(headers)[col]
         IN  [exc |-> "",
              rows |-> StableSort(table,
                                  [i \in 1..Len(table) |-> parse_value(table[i][idx])],
                                  order)]

\* rows of a price table: equal and different changes, with and without
\* colour, and the row of a symbol without ticker
PriceTableRows ==
    { <<"BTCUSDT", <<"num", "", 10000>>, format_pct(22), format_pct(142),
        format_pct(0), format_pct(100)>>,
      <<"ETHUSDT", <<"num", "", 10000>>, format_pct_simple(22), format_pct(-8),
        format_pct(88), format_pct_simple(100)>>,
      <<"SOLUSDT", <<"num", "", 10000>>, format_pct(-8), format_pct_simple(142),
        format_pct_simple(0), format_pct(-100)>>,
      <<"XYZUSDT", ErrorCell, EmptyCell, EmptyCell, EmptyCell, EmptyCell>> }

\* at most this many rows in a table that is sorted
MaxRows == 3

PriceTables == UNION {[1..n -> PriceTableRows] : n \in 0..MaxRows}

(***************************************************************************)
(* Calls of one pure function                                              *)
(***************************************************************************)
\* arguments of display_progress_bar: amounts below, at and above the target,
\* targets on both sides of 0, the default and two other bar lengths
BarCurrents == -1 .. 45
BarTargets == {-1, 0, 2, 22, 44}
BarLengths == {10, 22, BarLength}

\* arguments of color_sl_size, in hundredths of a percent: a negative size and
\* every size from 0.00% to 4.00%
SlSizes == {-300} \cup 0 .. 400

\* open positions of one symbol whose initial margin is missing, zero or
\* positive, with a small or large notional and a loss, no or a profit
MarginRecords ==
    {(IF mf = <<>> THEN <<>> ELSE [positionInitialMargin |-> mf[1]])
     @@ [symbol |-> "BTCUSDT", positionAmt |-> amt, entryPrice |-> "100",
         markPrice |-> "110", notional |-> nt, unRealizedProfit |-> pnl] :
        mf \in {<<>>} \cup {<<m>> : m \in {"0", "0.20", "50", "100"}},
        amt \in {"1", "-1"},
        nt \in {"10", "1000", "-1000"}, pnl \in {"-0.20", "0", "0.20"}}

\* lines 119-134 and 196-225 for one position without a stop order: the
\* exception raised, or the row
JoinPosition(pos, w) ==
    IF ScanExc(pos) # "" THEN [exc |-> ScanExc(pos), row |-> <<>>]
    ELSE IF RowExc(OpenEntry(pos), w) # ""
    THEN [exc |-> RowExc(OpenEntry(pos), w), row |-> <<>>]
    ELSE [exc |-> "", row |-> <<RowOf(OpenEntry(pos), <<>>, w)>>]

Called(fn, arg) == [fn |-> fn, arg |-> arg, state |-> "called", ret |-> NoneVal]

CallInputs ==
    {Called("get_stop_loss_for_symbol", a) : a \in LookupAnswers}
    \cup {Called("display_progress_bar", <<c, t, b>>) :
            c \in BarCurrents, t \in BarTargets, b \in BarLengths}
    \cup {Called("color_sl_size", pct) : pct \in SlSizes}
    \cup {Called("join_position", pos) : pos \in MarginRecords}
    \cup {Called("sort_table", [table |-> t, col |-> c, order |-> o]) :
            t \in PriceTables,
            c \in {"change_15m", "change_1h", "change_asia", "change_24h",
                   "invalid_col"},
            o \in BOOLEAN}

InitCall ==
    /\ FetchIdle
    /\ DisplayIdle
    /\ MainIdle
    /\ price = NoPriceCall
    /\ tg = NoTelegramCall
    /\ call \in CallInputs

\* the call returns what the function computes
Return(fn, value) ==
    /\ call.fn = fn
    /\ call.state = "called"
    /\ call' = [call EXCEPT !.state = "returned", !.ret = value]
    /\ UNCHANGED <<fetch_vars, display_vars, main_vars, tg, price>>

\* lines 93-102
CallStopLoss ==
    Return("get_stop_loss_for_symbol", get_stop_loss_for_symbol(call.arg))

\* lines 70-79
CallProgressBar ==
    Return("display_progress_bar",
           display_progress_bar(call.arg[1], call.arg[2], call.arg[3]))

\* lines 48-55
CallColorSlSize ==
    Return("color_sl_size", color_sl_size(call.arg))

\* lines 127-134 and 196-225, with a wallet balance of 1000 USD
CallJoinPosition ==
    Return("join_position", JoinPosition(call.arg, 100000))

\* price_lib.py lines 48-70
CallSortTable ==
    Return("sort_table",
           sort_table(call.arg.table, Headers, call.arg.col, call.arg.order))

NextCall ==
    \/ CallStopLoss
    \/ CallProgressBar
    \/ CallColorSlSize
    \/ CallJoinPosition
    \/ CallSortTable

SpecCall == InitCall /\ [][NextCall]_vars

(***************************************************************************)
(* What a call has done, read off the state                                *)
(***************************************************************************)
\* the stop-loss fan-out is over: the with block was left
FanOutDone == pc \in {"rows", "done"} \/ (pc = "raised" /\ max_workers > 0)

\* the call has ended after the join: it returned or the join loop raised
Joined == pc = "done" \/ (pc = "raised" /\ max_workers > 0)

\* symbols of the gateway's entries that are configured and not flat
OpenConfiguredSymbols ==
    {positions[i].symbol : i \in
        {j \in 1..Len(positions) :
            /\ positions[j].symbol \in DOMAIN coins_config
            /\ "positionAmt" \in DOMAIN positions[j]
            /\ CanFloat(positions[j].positionAmt)
            /\ Float(positions[j].positionAmt) # 0}}

Raising == {s \in DOMAIN gw_orders : gw_orders[s].raises}

\* the open rows of a report (a placeholder row has side "-")
OpenRows(rows) == {i \in 1..Len(rows) : rows[i].side # Dash}

(***************************************************************************)
(* C1: once the stop-loss fan-out has finished, sl_results has an entry    *)
(* for every symbol with an open configured position and for no other      *)
(* symbol, whatever lookups succeeded or failed.                           *)
(***************************************************************************)
C1_EveryOpenSymbolHasResult ==
    FanOutDone => DOMAIN sl_results = OpenConfiguredSymbols

\* the fan-out is over with one lookup that raised and one that found a stop
C1_Witness ==
    /\ pc = "rows"
    /\ Cardinality(DOMAIN sl_results) = 2
    /\ \E s \in DOMAIN sl_results : gw_orders[s].raises
    /\ \E s \in DOMAIN sl_results : sl_results[s].sl_percent # NoneVal

(***************************************************************************)
(* C2: no row is built and no entry of sl_results is read before every     *)
(* dispatched task has completed: while rows are built, every open         *)
(* position has a submitted task, every submitted task has finished and    *)
(* every result has been stored.                                           *)
(***************************************************************************)
C2_JoinBarrier ==
    (pc = "rows" \/ filtered # <<>>) =>
        /\ Len(futures) = Len(open_positions)
        /\ Cardinality(Finished) = Len(futures)
        /\ collected = 1..Len(futures)

\* the first row is about to be built after a fan-out of MaxPositions tasks
C2_Witness ==
    /\ pc = "rows"
    /\ row_i = 1
    /\ Len(futures) = MaxPositions
    /\ filtered = <<>>

(***************************************************************************)
(* The outcome of a call as a function of the gateway's answers and of     *)
(* the order in which the futures are yielded                              *)
(***************************************************************************)
Orders(n) == {f \in [1..n -> 1..n] : \A i, j \in 1..n : f[i] = f[j] => i = j}

TaskTuple(i, answers) ==
    LET op == open_positions[i]
    IN  fetch_sl(op.symbol, op.side_text, op.entry, op.notional, answers[op.symbol])

RECURSIVE StoreInOrder(_, _, _)
StoreInOrder(order, k, answers) ==
    IF k = 0 THEN <<>>
    ELSE Store(StoreInOrder(order, k - 1, answers), TaskTuple(order[k], answers))

RECURSIVE SumRisk(_, _)
SumRisk(slr, k) ==
    IF k = 0 THEN 0
    ELSE SumRisk(slr, k - 1) + SlLookup(slr, open_positions[k].symbol).sl_risk_usd

OutcomeFor(order, answers) ==
    LET n == Len(open_positions)
        slr == StoreInOrder(order, n, answers)
        bad == {i \in 1..n : RowExc(open_positions[i], wallet_balance) # ""}
    IN  IF bad # {}
        THEN [pc |-> "raised",
              exc |-> RowExc(open_positions[CHOOSE i \in bad : \A j \in bad : i <= j],
                             wallet_balance),
              rows |-> <<>>, total |-> 0]
        ELSE [pc |-> "done", exc |-> "",
              rows |-> Assemble([i \in 1..n |->
                                   RowOf(open_positions[i], slr, wallet_balance)], args),
              total |-> SumRisk(slr, n)]

Outcome ==
    [pc |-> pc, exc |-> exc,
     rows |-> IF pc = "done" THEN filtered ELSE <<>>,
     total |-> IF pc = "done" THEN total_risk_usd ELSE 0]

(***************************************************************************)
(* C3: for fixed gateway answers, the rows and the total risk returned are *)
(* the same for every order in which the stop-loss tasks complete, also    *)
(* when a symbol occurs in more than one entry of the position list.       *)
(* Fails: two entries of one symbol share the key of sl_results, and the   *)
(* task that is yielded last decides both rows.                            *)
(***************************************************************************)
C3_OrderIndependent ==
    Joined => \A order \in Orders(Len(open_positions)) :
                  Outcome = OutcomeFor(order, gw_orders)

(***************************************************************************)
(* C4: when the open-orders query of a symbol raises, the call ends as it  *)
(* would have ended had that query returned no stop order: a report whose  *)
(* rows of that symbol show "-" for stop price, %-to-stop and stop-loss    *)
(* USD and add 0 to the total risk, with the rows of the other symbols     *)
(* computed from their own lookups.  No lookup exception leaves the join.  *)
(***************************************************************************)
NoStopInstead ==
    [s \in DOMAIN gw_orders |->
        IF gw_orders[s].raises THEN [raises |-> FALSE, orders |-> <<>>]
        ELSE gw_orders[s]]

RECURSIVE SumRiskExcept(_, _, _)
SumRiskExcept(slr, k, skip) ==
    IF k = 0 THEN 0
    ELSE SumRiskExcept(slr, k - 1, skip)
         + (IF open_positions[k].symbol \in skip THEN 0
            ELSE SlLookup(slr, open_positions[k].symbol).sl_risk_usd)

C5_BoundedWorkers ==
    pc \in {"submit", "collect"} =>
        Cardinality(Running)
            <= (IF (IF cpu_count = 0 THEN 1 ELSE cpu_count) \div 2 >= 1
                THEN (IF cpu_count = 0 THEN 1 ELSE cpu_count) \div 2
                ELSE 1)

\* the pool is saturated: as many lookups run as there are workers, and a
\* submitted task waits in the queue
C5_Witness ==
    /\ pc \in {"submit", "collect"}
    /\ Cardinality(Running) = max_workers
    /\ \E i \in 1..Len(futures) : futures[i].state = "pending"

(***************************************************************************)
(* C6: a returned report has at most one row per symbol, also when the     *)
(* position list has several non-flat entries of one configured symbol.    *)
(* Fails: every entry of open_positions gets its own row.                  *)
(***************************************************************************)
C6_OneRowPerSymbol ==
    pc = "done" =>
        \A i, j \in 1..Len(filtered) :
            filtered[i].symbol = filtered[j].symbol => i = j

(***************************************************************************)
(* C7: every row has a symbol that is a key of coins_config: a position    *)
(* of a symbol that is not configured yields no row, whatever its amount,  *)
(* hide_empty and the sort policy.                                         *)
(***************************************************************************)
C7_RowsAreConfigured ==
    \A i \in 1..Len(filtered) : filtered[i].symbol \in DOMAIN coins_config

\* a report with an open row, returned for a position list that holds an
\* open position of a symbol that is not configured
C7_Witness ==
    /\ pc = "done"
    /\ OpenRows(filtered) # {}
    /\ \E i \in 1..Len(positions) :
          /\ positions[i].symbol \notin DOMAIN coins_config
          /\ Float(positions[i].positionAmt) # 0

(***************************************************************************)
(* C8: with a wallet balance of zero (also without a USDT entry) and an    *)
(* open configured position, the call ends without a division error and    *)
(* the row's margin fraction of the wallet is "0.00%" or "-".              *)
(* Fails: margin / wallet_balance raises ZeroDivisionError.                *)
(***************************************************************************)
C8_ZeroWalletNoDivisionError ==
    (wallet_balance = 0 /\ open_positions # <<>>) =>
        /\ exc # "ZeroDivisionError"
        /\ pc = "done" =>
              \A i \in OpenRows(filtered) :
                  filtered[i].risk_pct \in {<<"pct", "", 0>>, Dash}

(***************************************************************************)
(* C9: an entry of the position list with a missing or malformed field     *)
(* does not make the call raise: the entry yields no row and every         *)
(* well-formed open configured position still yields its row.              *)
(* Fails: KeyError or ValueError leaves the scan loop.                     *)
(***************************************************************************)
WellFormedOpen ==
    {i \in 1..Len(positions) :
        /\ positions[i].symbol \in DOMAIN coins_config
        /\ \A k \in {"positionAmt", "entryPrice", "markPrice", "notional"} :
              k \in DOMAIN positions[i] /\ CanFloat(positions[i][k])
        /\ Float(positions[i].positionAmt) # 0}

C9_MalformedEntrySkipped ==
    /\ ~(pc = "raised" /\ exc \in {"KeyError", "ValueError"})
    /\ pc = "done" =>
          \A i \in WellFormedOpen :
              \E k \in OpenRows(filtered) : filtered[k].symbol = positions[i].symbol

(***************************************************************************)
(* C10: for an open position whose resolved stop price lies on the loss    *)
(* side of the entry price (above it for SHORT, below it for LONG), the    *)
(* stop distance percentage computed by fetch_sl is positive, and so is    *)
(* the stop risk in USD.                                                   *)
(* Fails: the code's difference is entry - stop for SHORT and stop - entry *)
(* for LONG, which is negative on the loss side.                           *)
(***************************************************************************)
\* finished lookups that resolved a stop price on the loss side
LossSideStops ==
    {i \in 1..Len(futures) :
        /\ futures[i].state = "finished"
        /\ LET op == open_positions[i]
               found == get_stop_loss_for_symbol(gw_orders[op.symbol])
           IN  /\ found # NoneVal
               /\ found[1] > 0
               /\ op.entry > 0
               /\ op.notional > 0
               /\ IF op.side_text = "SHORT" THEN found[1] > op.entry
                                            ELSE found[1] < op.entry}

C10_LossSideStopIsPositive ==
    \A i \in LossSideStops :
        /\ futures[i].result.sl_percent # NoneVal
        /\ futures[i].result.sl_percent[1] > 0
        /\ futures[i].result.sl_risk_usd > 0

(***************************************************************************)
(* C10 as amended: on the loss side the stop distance percentage is        *)
(* negative, and so is the stop risk in USD (for a positive entry price,   *)
(* a positive stop price and a non-zero notional).                         *)
(***************************************************************************)
C10_LossSideStopIsNegative ==
    \A i \in LossSideStops :
        /\ futures[i].result.sl_percent # NoneVal
        /\ futures[i].result.sl_percent[1] < 0
        /\ futures[i].result.sl_risk_usd < 0
        /\ futures[i].result.sl_risk_usd
              = (open_positions[i].notional * futures[i].result.sl_percent[1]) \div 10000

\* a long and a short have both finished a lookup with a loss-side stop
C10_Witness ==
    /\ \E i \in LossSideStops : open_positions[i].side_text = "LONG"
    /\ \E i \in LossSideStops : open_positions[i].side_text = "SHORT"

(***************************************************************************)
(* C11: the total risk and the rows                                        *)
(***************************************************************************)
\* the stop price of the row resolved: the stop-price cell is not "-"
StopResolved(row) == row.sl_price # Dash

\* sum of the stop risk shown in rows i.. that are open and have a stop price
RECURSIVE SumResolvedRisk(_, _)
SumResolvedRisk(rows, i) ==
    IF i > Len(rows) THEN 0
    ELSE (IF rows[i].side # Dash /\ StopResolved(rows[i])
          THEN rows[i].sl_usd[3] ELSE 0)
         + SumResolvedRisk(rows, i + 1)

\* C11: when fetch_open_positions returns, the total risk is the sum of the
\* stop risk over exactly the open rows whose stop price resolved; a row
\* without a stop price (failed lookup, no reduce-only stop order) shows "-"
\* as its risk, and neither such a row nor a placeholder row (whose hidden
\* sort key is the sentinel -9999) adds anything.
C11_TotalRiskIsSumOfResolvedRows ==
    pc = "done" =>
        /\ total_risk_usd = SumResolvedRisk(filtered, 1)
        /\ \A i \in 1..Len(filtered) :
              ~StopResolved(filtered[i]) => filtered[i].sl_usd = Dash

\* a returned report with a row whose stop resolved, an open row whose lookup
\* failed, and a non-zero total
C11_Witness ==
    /\ pc = "done"
    /\ total_risk_usd # 0
    /\ \E i \in 1..Len(filtered) :
          filtered[i].side # Dash /\ StopResolved(filtered[i])
    /\ \E i \in 1..Len(filtered) :
          /\ filtered[i].side # Dash
          /\ ~StopResolved(filtered[i])
          /\ gw_orders[filtered[i].symbol].raises

(***************************************************************************)
(* C13-C15: the order of the returned rows                                 *)
(***************************************************************************)
\* the rows before line 252: one per open position, then the placeholders,
\* without the two hidden keys
PreSortRows ==
    LET rows == [i \in 1..Len(open_positions) |->
                    RowOf(open_positions[i], sl_results, wallet_balance)]
        padded == Pad(rows, args.hide_empty)
    IN  [i \in 1..Len(padded) |-> Strip(padded[i])]

\* the pnl_pct a row is sorted by: the displayed value, -999 for a placeholder
PnlKey(row) == IF row.pnl_pct = Dash THEN PlaceholderPnlKey ELSE row.pnl_pct[3]

\* rows is pre rearranged so that ties of Key keep their order in pre
StableRearrangement(rows, pre, Key(_)) ==
    /\ Len(rows) = Len(pre)
    /\ \E perm \in Orders(Len(pre)) :
          /\ \A i \in 1..Len(pre) : rows[i] = pre[perm[i]]
          /\ \A i, j \in 1..Len(pre) :
                (i < j /\ Key(rows[i]) = Key(rows[j])) => perm[i] < perm[j]

\* C13: with sort_by = pnl_pct the returned open rows are in non-increasing
\* order of pnl_pct when descending and in non-decreasing order when not, and
\* in both directions rows with equal keys keep their pre-sort relative order.
C13_PnlPctSortOrderedAndStable ==
    (pc = "done" /\ args.sort_by = "pnl_pct") =>
        /\ \A i, j \in 1..Len(filtered) :
              (i < j /\ filtered[i].side # Dash /\ filtered[j].side # Dash) =>
                  IF args.descending
                  THEN filtered[i].pnl_pct[3] >= filtered[j].pnl_pct[3]
                  ELSE filtered[i].pnl_pct[3] <= filtered[j].pnl_pct[3]
        /\ StableRearrangement(filtered, PreSortRows, PnlKey)

\* a descending pnl_pct report with two different open rows of equal pnl_pct
\* and a row of another pnl_pct key
C13_Witness ==
    /\ pc = "done"
    /\ args.sort_by = "pnl_pct"
    /\ args.descending
    /\ \E i, j \in 1..Len(filtered) :
          /\ i < j
          /\ filtered[i].side # Dash /\ filtered[j].side # Dash
          /\ filtered[i] # filtered[j]
          /\ filtered[i].pnl_pct[3] = filtered[j].pnl_pct[3]
    /\ \E i, j \in 1..Len(filtered) : PnlKey(filtered[i]) # PnlKey(filtered[j])

\* C14: with hide_empty = False and a numeric sort policy, every placeholder
\* row comes after every open-position row of the returned list, in both
\* directions and whatever the open rows' sort keys are.
C14_PlaceholdersLast ==
    (pc = "done" /\ ~args.hide_empty /\ args.sort_by \in {"pnl_pct", "sl_usd"}) =>
        \A i, j \in 1..Len(filtered) :
            (filtered[i].side = Dash /\ filtered[j].side # Dash) => j < i

\* the default sort key of a row
RowOrderKey(row) == OrderKey(row.symbol)

\* rows of a symbol that is not in coin_order, of BTCUSDT and of ETHUSDT
UnorderedRows ==
    <<RowOf(OpenEntry(DogeLong), <<>>, 100000),
      Placeholder("ETHUSDT"),
      RowOf(OpenEntry(BtcLong), <<>>, 100000)>>

\* the default sort puts the row of the unlisted symbol last, BTCUSDT first
UnlistedSymbolSortsLast ==
    \A d \in BOOLEAN :
        SortRows(UnorderedRows, "default", d) =
            <<UnorderedRows[3], UnorderedRows[2], UnorderedRows[1]>>

\* C15: with sort_by = default the returned rows are in the order of their
\* symbols in coin_order, rows of one symbol keep their relative order, and
\* this is so for both values of descending (the stable ascending order is
\* unique, so the result does not depend on the flag); the row of a symbol
\* that is not in coin_order goes after the rows of the symbols that are.
C15_DefaultSortFollowsCoinOrder ==
    (pc = "done" /\ args.sort_by = "default") =>
        /\ \A i, j \in 1..Len(filtered) :
              i < j => RowOrderKey(filtered[i]) <= RowOrderKey(filtered[j])
        /\ StableRearrangement(filtered, PreSortRows, RowOrderKey)
        /\ UnlistedSymbolSortsLast

\* a default-order report, called with descending = True, whose rows were
\* moved by the sort and which has an open row
C15_Witness ==
    /\ pc = "done"
    /\ args.sort_by = "default"
    /\ args.descending
    /\ filtered # PreSortRows
    /\ \E i \in 1..Len(filtered) : filtered[i].side # Dash

(***************************************************************************)
(* C16: placeholder rows                                                   *)
(***************************************************************************)
\* the displayed fields of a row other than symbol and leverage
OtherFields ==
    {"side", "entry", "mark", "margin", "notional", "pnl", "pnl_pct",
     "risk_pct", "sl_price", "sl_size", "sl_usd"}

RowsOfSymbol(rows, symbol) == {i \in 1..Len(rows) : rows[i].symbol = symbol}

\* every symbol of coin_order without an open row has exactly one row, with
\* the configured leverage and "-" elsewhere
FlatSymbolsPadded(rows) ==
    \A k \in 1..Len(coin_order) :
        LET mine == RowsOfSymbol(rows, coin_order[k])
        IN  (\A i \in mine : rows[i].side = Dash) =>
                /\ Cardinality(mine) = 1
                /\ \A i \in mine :
                      /\ rows[i].leverage = <<"int", "", coins_config[coin_order[k]].leverage>>
                      /\ \A f \in OtherFields \ {"side"} : rows[i][f] = Dash

\* C16: with hide_empty = False every symbol of coin_order without an
\* open-position row gets exactly one placeholder row (configured leverage,
\* "-" in the other fields), so that the report has one row for each
\* configured symbol; with hide_empty = True no row is a placeholder.
C16_OnePlaceholderPerFlatSymbol ==
    pc = "done" =>
        IF args.hide_empty
        THEN \A i \in 1..Len(filtered) : filtered[i].side # Dash
        ELSE /\ FlatSymbolsPadded(filtered)
             /\ \A k \in 1..Len(coin_order) :
                   Cardinality(RowsOfSymbol(filtered, coin_order[k])) = 1

(***************************************************************************)
(* C17: get_stop_loss_for_symbol                                           *)
(***************************************************************************)
\* a stop order that is reduce-only
Qualifies(o) ==
    /\ o.type \in {"STOP_MARKET", "STOP"}
    /\ "reduceOnly" \in DOMAIN o
    /\ o.reduceOnly

\* C17: get_stop_loss_for_symbol returns the stop price of the first order of
\* the list that is a STOP_MARKET or STOP order with a true reduceOnly flag;
\* it returns None when no order is one (empty list, other types, stop orders
\* that are not reduce-only) and None when the query raises, the same value
\* in both cases.
C17_FirstReduceOnlyStopOrNone ==
    (call.fn = "get_stop_loss_for_symbol" /\ call.state = "returned") =>
        LET orders == call.arg.orders
            q == {i \in 1..Len(orders) : Qualifies(orders[i])}
        IN  IF call.arg.raises \/ q = {}
            THEN call.ret = NoneVal
            ELSE call.ret =
                    Some(Float(orders[CHOOSE i \in q : \A j \in q : i <= j].stopPrice))

\* a returned lookup whose answer had a stop order that is not reduce-only in
\* front of a reduce-only stop order of another price
C17_Witness ==
    /\ call.fn = "get_stop_loss_for_symbol"
    /\ call.state = "returned"
    /\ ~call.arg.raises
    /\ Len(call.arg.orders) = 2
    /\ call.arg.orders[1].type = "STOP_MARKET"
    /\ ~Qualifies(call.arg.orders[1])
    /\ Qualifies(call.arg.orders[2])
    /\ call.arg.orders[1].stopPrice # call.arg.orders[2].stopPrice
    /\ call.ret = Some(Float(call.arg.orders[2].stopPrice))

(***************************************************************************)
(* C12: the header of display_table                                        *)
(***************************************************************************)
\* display_table has built its report
Rendered == pc \in {"send", "returned"}

\* sum of the used margin shown in the open-position rows i.. of the table
RECURSIVE SumOpenMargins(_, _)
SumOpenMargins(table, i) ==
    IF i > Len(table) THEN 0
    ELSE (IF table[i].side # Dash THEN table[i].margin[3] ELSE 0)
         + SumOpenMargins(table, i + 1)

\* the rows of the example: margins 595.99 and 591.11, and a flat symbol
ExampleTable ==
    <<[Placeholder("BTCUSDT") EXCEPT !.side = <<"LONG", "green", 0>>,
                                     !.margin = <<"num", "", 59599>>],
      [Placeholder("ETHUSDT") EXCEPT !.side = <<"SHORT", "red", 0>>,
                                     !.margin = <<"num", "", 59111>>],
      Placeholder("ETHUSDT")>>

ExampleAvailableBalance == AvailableBalance(ExampleTable, 112315, 29029)

\* C12: in the report of display_table the total equity is the wallet balance
\* plus the unrealized PnL, and the available balance is the total equity
\* minus the used margin summed over the open-position rows of the report;
\* placeholder rows subtract nothing (balance 1123.15, PnL 290.29, margins
\* 595.99 and 591.11 give 226.34).
C12_EquityAndAvailableBalance ==
    /\ Rendered =>
          /\ output.total = wallet + unrealized
          /\ output.available_balance =
                output.total - SumOpenMargins(filtered, 1)
    /\ ExampleAvailableBalance = 22634

\* a report with an open row of non-zero margin and a placeholder row, of a
\* wallet with a balance and an unrealized PnL
C12_Witness ==
    /\ Rendered
    /\ wallet > 0
    /\ unrealized # 0
    /\ \E i \in 1..Len(filtered) :
          filtered[i].side # Dash /\ filtered[i].margin[3] > 0
    /\ \E i \in 1..Len(filtered) : filtered[i].side = Dash
    /\ output.available_balance # output.total

(***************************************************************************)
(* C18, C19: the notification of display_table                             *)
(***************************************************************************)
\* C18: a call of display_table with telegram = True that returns has sent
\* exactly one notification, whose text carries the wallet balance summary of
\* the report, whatever compact, hide_empty and the sort policy are; a call
\* with telegram = False has sent none; nothing is sent before the report
\* data is computed.
C18_OneNotificationIffTelegram ==
    /\ pc = "returned" =>
          IF dt_args.telegram
          THEN /\ Len(sent) = 1
               /\ sent[1].wallet = output.wallet
               /\ sent[1].available_balance = output.available_balance
               /\ sent[1].total = output.total
          ELSE sent = <<>>
    /\ sent # <<>> => pc = "returned"

\* the send of display_table has raised
SendRaised == logged # <<>>

\* C19: when the notification send raises, display_table does not raise: it
\* returns, the text it returns is the report built from the rows, the total
\* risk, the wallet answer and the arguments, the same as after a successful
\* send, and the failure is logged (once).
C19_SendFailureSwallowed ==
    /\ sent # <<>> =>
          /\ pc = "returned"
          /\ output = RenderOutput(filtered, total_risk_usd, wallet, unrealized,
                                   args, dt_args)
    /\ SendRaised => logged = <<"Telegram message failed">>
    /\ pc = "raised" => exc \in {"KeyError", "ValueError", "ZeroDivisionError"}

\* a returned call whose send raised, with a table of an open row
C19_Witness ==
    /\ pc = "returned"
    /\ SendRaised
    /\ Len(sent) = 1
    /\ output.table # <<>>
    /\ \E i \in 1..Len(filtered) : filtered[i].side # Dash

(***************************************************************************)
(* C20: send_telegram_message                                              *)
(***************************************************************************)
\* a credential after the fallback for an argument passed as None
Effective(arg, env) == IF arg = NoneVal THEN env ELSE arg

\* the call of send_telegram_message is over
TgOver == tg.pc \in {"returned", "raised"}

\* C20: send_telegram_message makes no HTTP request when the bot token or the
\* chat id, taken from the environment if it was passed as None, is missing
\* or empty, and exactly one request otherwise; an exception of the request
\* never leaves the function.
C20_RequestIffConfigured ==
    tg.pc # "none" =>
        /\ tg.pc # "raised"
        /\ TgOver =>
              IF /\ Truthy(Effective(tg.arg_token, tg.env_token))
                 /\ Truthy(Effective(tg.arg_chat_id, tg.env_chat_id))
              THEN Len(tg.posts) = 1
              ELSE tg.posts = <<>>

\* ---------------------------------------------------------------------------
\* C24  display_progress_bar(current, target, bar_length) returns the empty
\* string for every target <= 0; for a target > 0 the percentage shown is
\* clamp(current / target, 0, 1) x 100, to one decimal and within
\* [0.0, 100.0], the bar has exactly bar_length cells of which
\* floor(bar_length x progress) are filled, and the colour is green at
\* progress >= 1, yellow at progress >= 0.5 and red otherwise.
Clamped(c, t) == IF c < 0 THEN 0 ELSE IF c > t THEN t ELSE c

BarReturned == call.fn = "display_progress_bar" /\ call.state = "returned"

\* the parts of the claim other than the number of filled cells
BarTextAndColour(c, t, b, ret) ==
    IF t <= 0 THEN ret = <<>>
    ELSE /\ Len(ret) = 1
         /\ ret[1].pct = RoundHalfEven(Clamped(c, t) * 1000, t)
         /\ ret[1].pct \in 0 .. 1000
         /\ ret[1].filled + ret[1].empty = b
         /\ ret[1].filled \in 0 .. b
         /\ ret[1].colour = (IF Clamped(c, t) >= t THEN "green"
                             ELSE IF 2 * Clamped(c, t) >= t THEN "yellow"
                             ELSE "red")

FilledIsFloor(c, t, b, ret) ==
    t > 0 => ret[1].filled = (b * Clamped(c, t)) \div t

C24_ProgressBarClampedFloor ==
    BarReturned =>
        /\ BarTextAndColour(call.arg[1], call.arg[2], call.arg[3], call.ret)
        /\ FilledIsFloor(call.arg[1], call.arg[2], call.arg[3], call.ret)

\* ---------------------------------------------------------------------------
\* C25  color_sl_size assigns exactly one of three tiers to every percentage:
\* red below 2, yellow from 2 up to but not including 3.5, green from 3.5 on;
\* the boundaries 2.0 and 3.5 belong to yellow and to green.
SlSizeReturned == call.fn = "color_sl_size" /\ call.state = "returned"

C25_ThreeTiers ==
    SlSizeReturned =>
        /\ call.ret[1] = "pct"
        /\ call.ret[3] = call.arg
        /\ call.ret[2] \in {"red", "yellow", "green"}
        /\ call.ret[2] = "red" <=> call.arg < 200
        /\ call.ret[2] = "yellow" <=> (200 <= call.arg /\ call.arg < 350)
        /\ call.ret[2] = "green" <=> call.arg >= 350
        /\ call.arg = 200 => call.ret[2] = "yellow"
        /\ call.arg = 350 => call.ret[2] = "green"

C25_Witness == SlSizeReturned /\ call.arg = 350 /\ call.ret[2] = "green"

\* ---------------------------------------------------------------------------
\* C29  For every open position, leverage is round(notional / max(margin,
\* 1e-6)) and pnl_pct is unrealized_pnl / margin x 100 with the same floored
\* margin; an initial margin reported as zero, or a missing margin field,
\* never causes a division error.
JoinReturned == call.fn = "join_position" /\ call.state = "returned"

\* max(margin, 1e-6 USD), in units of 1e-6 USD
FlooredMargin(pos) ==
    Max(GetFloat(pos, "positionInitialMargin") * EpsPerCent, 1)

NoMargin(pos) == GetFloat(pos, "positionInitialMargin") = 0

C29_MarginFloor ==
    JoinReturned =>
        LET pos == call.arg
            pnl == Float(pos.unRealizedProfit)
        IN  /\ call.ret.exc = ""
            /\ Len(call.ret.row) = 1
            /\ call.ret.row[1].leverage[3]
                 = RoundHalfEven(Abs(Float(pos.notional)) * EpsPerCent,
                                 FlooredMargin(pos))
            /\ call.ret.row[1].pnl_pct[3]
                 = (pnl * 10000 * EpsPerCent) \div FlooredMargin(pos)
            /\ call.ret.row[1].k13 = call.ret.row[1].pnl_pct[3]

C29_Witness ==
    /\ JoinReturned
    /\ "positionInitialMargin" \notin DOMAIN call.arg
    /\ call.ret.exc = ""
    /\ call.ret.row[1].leverage[3] = 1000000000
    /\ call.ret.row[1].pnl_pct[3] < 0

\* ---------------------------------------------------------------------------
\* C21  In position_monitor.main, when creating the gateway client fails or
\* loading or validating the configuration fails, the process exits with
\* status 1 before any position, balance or open-orders query is issued and
\* before any report text is printed or any notification is sent.
StartupFailed ==
    \/ startup.client \notin {"", "ok"}
    \/ startup.config \notin {"", "ok"}

C21_NoPartialStartup ==
    StartupFailed =>
        /\ pc = "exit"
        /\ exit_code = Some(1)
        /\ Len(main_logged) = 1
        /\ gw_calls.positions = 0
        /\ gw_calls.balance = 0
        /\ gw_calls.orders = <<>>
        /\ positions = <<>> /\ balances = <<>> /\ gw_orders = <<>>
        /\ printed = <<>>
        /\ output = <<>>
        /\ sent = <<>>

C21_Witness ==
    /\ startup = [client |-> "ok", config |-> "validation_raises"]
    /\ pc = "exit"
    /\ exit_code = Some(1)

\* ---------------------------------------------------------------------------
\* C26  In full (non-compact) mode display_table appends the trailing
\* sort-indicator line if and only if a non-default sort was actually applied:
\* for every sort_by string the line is present exactly when the rows were
\* ordered by the pnl_pct or the stop-risk key rather than by coin_order.
FullReport == Rendered /\ ~dt_args.compact

\* the branch of lines 252-255 was taken
SortedByKey == args.sort_by \in SortPolicies \ {"default"}

C26_SortIndicatorIffSorted ==
    FullReport => (output.sorted_by # <<>> <=> SortedByKey)

\* ---------------------------------------------------------------------------
\* C30  One display_table call issues only read-only gateway queries, in this
\* order: one position query, one wallet-balance query, then exactly one
\* open-orders query per open configured position (none for flat or
\* unconfigured symbols) and, only after all of those have finished, a second
\* wallet-balance query whose result is the one shown in the header; no other
\* gateway call is made.
InDisplayTable == pc \notin {"main", "config", "banner", "exit"}

OpenIndices == {i \in 1..Len(positions) : IsOpen(positions[i])}

C30_GatewayQueries ==
    InDisplayTable =>
        /\ gw_calls.server_time = 1
        /\ gw_calls.positions \in 0..1
        /\ gw_calls.balance \in 0..2
        /\ gw_calls.balance >= 1 => gw_calls.positions = 1
        /\ \A i \in DOMAIN gw_calls.orders :
              /\ gw_calls.orders[i] = 1
              /\ gw_calls.balance >= 1
              /\ i \in 1..Len(open_positions)
              /\ Configured(open_positions[i].pos)
              /\ open_positions[i].amt # 0
        /\ gw_calls.balance = 2 =>
              /\ DOMAIN gw_calls.orders = 1..Len(open_positions)
              /\ Len(open_positions) = Cardinality(OpenIndices)
              /\ \A i \in 1..Len(futures) : futures[i].state = "finished"
        /\ Rendered =>
              /\ gw_calls.positions = 1
              /\ gw_calls.balance = 2
              /\ output.wallet = wallet

C30_Witness ==
    /\ pc = "returned"
    /\ Len(positions) = 2
    /\ Len(open_positions) = 1
    /\ DOMAIN gw_calls.orders = {1}
    /\ gw_calls.balance = 2
    /\ wallet # wallet_balance
    /\ output.wallet = wallet

\* ---------------------------------------------------------------------------
\* C28  batch_get_klines returns, only after all of its tasks have completed,
\* a mapping with exactly one entry for every (symbol, interval) pair of its
\* inputs; a pair whose query raises or returns an empty list maps to None,
\* and the mapping is the same for every completion order of the tasks.
BatchReturned ==
    \/ price.pc \in {"asia", "rows"}
    \/ price.pc = "returned" /\ price.logged = <<>>

Pairs ==
    {<<price.symbols[i], intervals_lookbacks[j][1]>> :
        i \in 1..Len(price.symbols), j \in 1..Len(intervals_lookbacks)}

\* what the answer of the gateway to task i should map its pair to
Expected(i) ==
    LET answer == price.gw_klines[i]
    IN  IF answer.raises \/ answer.klines = <<>> THEN NoneVal
        ELSE Some(answer.klines[Len(answer.klines)])

C28_KlineMapAfterJoin ==
    BatchReturned =>
        /\ Len(price.futures) = Cardinality(Pairs)
        /\ \A i \in 1..Len(price.futures) : price.futures[i].state = "finished"
        /\ DOMAIN price.results = Pairs
        /\ \A i \in 1..Len(price.futures) :
              price.results[price.futures[i].key] = Expected(i)

\* the second task was yielded first; one query raised, one gave two klines
C28_Witness ==
    /\ BatchReturned
    /\ Len(price.futures) = 4
    /\ price.order[1] = 2
    /\ \E i \in 1..4 : price.gw_klines[i].raises
    /\ \E i \in 1..4 : price.gw_klines[i].klines = <<>> /\ ~price.gw_klines[i].raises
    /\ \E i \in 1..4 : Len(price.gw_klines[i].klines) = 2

\* ---------------------------------------------------------------------------
\* C22  get_price_changes returns exactly one row per requested symbol, in
\* request order, and every symbol whose row carries the "Error" marker is
\* also in the returned error set together with a failure reason; this holds
\* for a symbol missing from the ticker response and also when the
\* all-tickers query itself fails.
PriceReturned == price.pc = "returned"

Listed(symbol) ==
    \E e \in price.invalid_symbols : e[1] = symbol /\ e[2] # ""

C22_ErrorRowsAreListed ==
    PriceReturned =>
        /\ Len(price.table) = Len(price.symbols)
        /\ \A i \in 1..Len(price.symbols) :
              /\ price.table[i].symbol = price.symbols[i]
              /\ price.table[i].last_price = ErrorCell => Listed(price.symbols[i])

\* ---------------------------------------------------------------------------
\* C23  In get_price_changes, when the kline lookup of one symbol fails (the
\* query raises or returns no kline), that symbol's row is marked as errored
\* or placeholder ("Error" or "-") instead of showing a computed change, and
\* the rows of all other symbols are produced normally.
TickerReturned == PriceReturned /\ price.logged = <<>>

\* the kline lookup of the symbol for the interval gave no kline
LookupFailed(symbol, interval) ==
    price.results[<<symbol, interval>>] = NoneVal

Marked(cell) == cell \in {ErrorCell, Dash}

HasTicker(symbol) ==
    /\ symbol \in DOMAIN TickerMap(price.tickers)
    /\ "lastPrice" \in DOMAIN TickerMap(price.tickers)[symbol]

C23_FailedKlineIsMarked ==
    TickerReturned =>
        \A i \in 1..Len(price.symbols) :
            LET symbol == price.symbols[i]
                row == price.table[i]
            IN  /\ LookupFailed(symbol, "15m") =>
                      Marked(row.last_price) \/ Marked(row.change_15m)
                /\ LookupFailed(symbol, "1h") =>
                      Marked(row.last_price) \/ Marked(row.change_1h)
                /\ HasTicker(symbol) => row.last_price = <<"num", "", 10000>>

\* ---------------------------------------------------------------------------
\* C27  sort_table orders the rows by the numeric value of the chosen column
\* after removing ANSI colour codes and the percent sign, descending when
\* order is true and ascending otherwise; a cell that cannot be parsed as a
\* number counts as the lowest possible value; rows with equal keys keep their
\* input order, each row is returned unchanged, and an unknown column name
\* raises KeyError.
SortReturned == call.fn = "sort_table" /\ call.state = "returned"

ColumnOf ==
    [change_15m |-> 3, change_1h |-> 4, change_asia |-> 5, change_24h |-> 6]

\* the number a cell stands for; below every number when it is none
NumberOf(cell) == IF cell[1] \in {"Error", "", "-"} THEN NegInf ELSE cell[3]

SortNumber(row) == NumberOf(row[ColumnOf[call.arg.col]])

C27_SortTableOrderedAndStable ==
    SortReturned =>
        IF call.arg.col \notin DOMAIN ColumnOf
        THEN call.ret.exc = "KeyError"
        ELSE /\ call.ret.exc = ""
             /\ \A i, j \in 1..Len(call.ret.rows) :
                   i < j => IF call.arg.order
                            THEN SortNumber(call.ret.rows[i]) >= SortNumber(call.ret.rows[j])
                            ELSE SortNumber(call.ret.rows[i]) <= SortNumber(call.ret.rows[j])
             /\ \A i \in 1..Len(call.ret.rows) :
                   call.ret.rows[i][ColumnOf[call.arg.col]][1] \in {"Error", ""}
                       => \A j \in 1..Len(call.ret.rows) :
                             IF call.arg.order THEN j <= i \/ SortNumber(call.ret.rows[j]) = NegInf
                             ELSE i <= j \/ SortNumber(call.ret.rows[j]) = NegInf
             /\ StableRearrangement(call.ret.rows, call.arg.table, SortNumber)

\* a descending sort of a coloured and a plain cell of equal value below a
\* row that cannot be parsed
C27_Witness ==
    /\ SortReturned
    /\ call.arg.col = "change_15m"
    /\ call.arg.order
    /\ Len(call.arg.table) = 3
    /\ call.arg.table[1][1] = "XYZUSDT"
    /\ call.arg.table[2][1] = "ETHUSDT"
    /\ call.arg.table[3][1] = "BTCUSDT"
    /\ call.ret.rows = <<call.arg.table[2], call.arg.table[3], call.arg.table[1]>>

====
